---- MODULE Spec2Model ----
(***************************************************************************)
(* qutebrowser.utils.split: the ShellLexer generator and split().          *)
(*                                                                         *)
(* A character is a one-character string; a Python str is a sequence of    *)
(* characters.  The ShellLexer object is a record of its attributes: the   *)
(* attributes reset() creates (quoted, escapedstate, token, state) are not *)
(* in the record before __iter__ has called reset().                       *)
(*                                                                         *)
(* Spec is one call of split().  SpecPair is two calls of split() whose    *)
(* steps interleave, with the ShellLexer objects in a heap.                *)
(*                                                                         *)
(* SpecAgain is one ShellLexer object that its owner iterates with         *)
(* list(lexer) several times, one iteration after the other.               *)
(*                                                                         *)
(* qutebrowser.config.value: SpecSetting is one SettingValue object and    *)
(* the calls of setv() and get_first_value() on it.                        *)
(*                                                                         *)
(* qutebrowser.utils.ipc: SpecIPC is the IPCServer of a running instance,  *)
(* the sockets of its clients and the calls of send_to_running_instance()  *)
(* made by other instances.                                                *)
(***************************************************************************)
EXTENDS Naturals, Sequences, FiniteSets, TLC

VARIABLES
    s,            \* split(): argument s
    keep,         \* split(): argument keep
    placeholder,  \* split(): argument placeholder
    lexer,        \* split(): the ShellLexer object
    pos,          \* __iter__: number of characters of lexer.string consumed
    tokens,       \* split(): list(lexer), the fragments yielded so far
    out,          \* split(): the returned list
    pc,           \* where the call is
    heap,         \* SpecPair: the ShellLexer objects constructed so far
    calls,        \* SpecPair: the frame of each call of split()
    _values,      \* SettingValue._values: the (layer, value) items in order
    sv_last,      \* SettingValue: the last call on the object and its outcome
    _socket,      \* IPCServer._socket
    listening,    \* IPCServer._server is listening
    socks,        \* the server-side QLocalSocket objects created so far
    ipc_last,     \* IPCServer: the last slot or method run and its outcome
    send_last,    \* send_to_running_instance(): the last call and its outcome
    it_lexer,     \* SpecAgain: the ShellLexer object
    it_pos,       \* SpecAgain: characters consumed by the running generator
    it_cur,       \* SpecAgain: fragments the running list(lexer) has so far
    it_lists,     \* SpecAgain: the lists the completed list(lexer) returned
    it_pc,        \* SpecAgain: "idle" between iterations, "scan" in one
    urlstr,       \* fuzzy_url(): the text given
    world,        \* fuzzy_url(): the configuration and what Qt and the OS say
    fz_pc,        \* fuzzy_url(): where the call is
    fz_isurl,     \* fuzzy_url(): the outcome of is_url(urlstr)
    fz_out        \* fuzzy_url(): the outcome of the call

splitVars == <<s, keep, placeholder, lexer, pos, tokens, out, pc>>
pairVars == <<heap, calls>>

settingVars == <<_values, sv_last>>
ipcVars == <<_socket, listening, socks, ipc_last, send_last>>
againVars == <<it_lexer, it_pos, it_cur, it_lists, it_pc>>
urlVars == <<urlstr, world, fz_pc, fz_isurl, fz_out>>

\* What a step of the single call leaves alone.
notSplitVars == <<pairVars, settingVars, ipcVars, againVars, urlVars>>
\* What a step of one of the two calls leaves alone.
notPairVars == <<splitVars, settingVars, ipcVars, againVars, urlVars>>

vars == <<splitVars, pairVars, settingVars, ipcVars, againVars, urlVars>>

\* Python's None.
None == "None"

\* IPCServer._socket is None: sockets are numbered from 1.
NoSocket == 0

\* No SettingValue object, no IPCServer and no client exists.
SettingIdle == _values = <<>> /\ sv_last = <<>>
IPCIdle ==
    /\ _socket = NoSocket /\ listening = FALSE /\ socks = <<>>
    /\ ipc_last = <<>> /\ send_last = <<>>

\* No ShellLexer object is iterated outside split().
AgainIdle ==
    /\ it_lexer = <<>> /\ it_pos = 0 /\ it_cur = <<>>
    /\ it_lists = <<>> /\ it_pc = "none"

\* No call of fuzzy_url is made.
UrlIdle ==
    /\ urlstr = <<>> /\ world = <<>> /\ fz_pc = "none"
    /\ fz_isurl = <<>> /\ fz_out = <<>>

(***************************************************************************)
(* Bounds and inputs.                                                      *)
(***************************************************************************)
MaxLen == 4

Alphabet == {" ", "\t", "\n", "a", "\"", "'", "\\"}

\* echo "a b" c
SrcEcho == <<"e", "c", "h", "o", " ", "\"", "a", " ", "b", "\"", " ", "c">>
\* "a\"b"
SrcDqEsc == <<"\"", "a", "\\", "\"", "b", "\"">>
\* 'a\b'
SrcSqEsc == <<"'", "a", "\\", "b", "'">>
\* a"b c"d
SrcMixed == <<"a", "\"", "b", " ", "c", "\"", "d">>
\* 'abc
SrcOpen == <<"'", "a", "b", "c">>
\* gvim -f "{}"
SrcEditor == <<"g", "v", "i", "m", " ", "-", "f", " ", "\"", "{", "}", "\"">>
\* space, tab, carriage return
SrcBlank == <<" ", "\t", "\r">>
\* a, carriage return, b, backslash
SrcCr == <<"a", "\r", "b", "\\">>

Examples ==
    {SrcEcho, SrcDqEsc, SrcSqEsc, SrcMixed, SrcOpen, SrcEditor, SrcBlank, SrcCr}

Sources == UNION {[1..n -> Alphabet] : n \in 0..MaxLen} \cup Examples

(***************************************************************************)
(* ShellLexer.__init__: the character classes.                             *)
(***************************************************************************)
whitespace == {" ", "\t", "\r"}
quotes == {"'", "\""}
escape == {"\\"}
escapedquotes == {"\""}

\* The literal '{}' of placeholder mode.
Marker == <<"{", "}">>

\* str.isspace() on the characters of the model: non-empty, and every
\* character is Unicode whitespace (line feed included).
PyWhitespace == {" ", "\t", "\n", "\r"}

\* Variant: only the space character counts as whitespace.
isspaceBlankOnly(t) == t # <<>> /\ \A i \in 1..Len(t) : t[i] = " "

isspace(t) == t # <<>> /\ \A i \in 1..Len(t) : t[i] \in PyWhitespace

ShellLexer(str) == [string |-> str, keep |-> FALSE, placeholder |-> FALSE]

Reset(l) ==
    [string |-> l.string, keep |-> l.keep, placeholder |-> l.placeholder,
     quoted |-> FALSE, escapedstate |-> " ", token |-> <<>>, state |-> " "]

\* One iteration of the loop leaves the lexer `lex` and has yielded `yield`.
Result(l, y) == [lex |-> l, yield |-> y]

(***************************************************************************)
(* ShellLexer.__iter__, state ' ' (lines 57-79).                           *)
(***************************************************************************)
\* Variant: an ordinary character is appended to the token (+=) instead of
\* replacing it, after the keep branch has already appended it.
IdleStepAppendOther(l, c) ==
    LET t0 == IF l.keep /\ ~l.placeholder THEN Append(l.token, c) ELSE l.token
    IN  IF c \in whitespace THEN
            LET t1 == IF l.placeholder THEN Append(t0, c) ELSE t0
            IN  IF t1 # <<>> \/ l.quoted
                THEN Result(Reset(l), <<t1>>)
                ELSE Result([l EXCEPT !.token = t1], <<>>)
        ELSE IF c \in escape THEN
            Result([l EXCEPT !.token = t0, !.escapedstate = "a", !.state = c],
                   <<>>)
        ELSE IF c \in quotes THEN
            Result([l EXCEPT
                        !.token = IF l.placeholder THEN Append(t0, c) ELSE t0,
                        !.state = c],
                   <<>>)
        ELSE
            Result([l EXCEPT
                        !.token = IF l.placeholder THEN t0 \o Marker
                                  ELSE Append(t0, c),
                        !.state = "a"],
                   <<>>)

\* Variant: the escape branch does not record the state to return to.
IdleStepNoReturnState(l, c) ==
    LET t0 == IF l.keep /\ ~l.placeholder THEN Append(l.token, c) ELSE l.token
    IN  IF c \in whitespace THEN
            LET t1 == IF l.placeholder THEN Append(t0, c) ELSE t0
            IN  IF t1 # <<>> \/ l.quoted
                THEN Result(Reset(l), <<t1>>)
                ELSE Result([l EXCEPT !.token = t1], <<>>)
        ELSE IF c \in escape THEN
            Result([l EXCEPT !.token = t0, !.state = c], <<>>)
        ELSE IF c \in quotes THEN
            Result([l EXCEPT
                        !.token = IF l.placeholder THEN Append(t0, c) ELSE t0,
                        !.state = c],
                   <<>>)
        ELSE
            Result([l EXCEPT
                        !.token = IF l.placeholder THEN Marker ELSE <<c>>,
                        !.state = "a"],
                   <<>>)

\* Variant: whitespace read in the idle state yields the token without the
\* reset after it.
IdleStepNoReset(l, c) ==
    LET t0 == IF l.keep /\ ~l.placeholder THEN Append(l.token, c) ELSE l.token
    IN  IF c \in whitespace THEN
            LET t1 == IF l.placeholder THEN Append(t0, c) ELSE t0
            IN  IF t1 # <<>> \/ l.quoted
                THEN Result([l EXCEPT !.token = t1], <<t1>>)
                ELSE Result([l EXCEPT !.token = t1], <<>>)
        ELSE IF c \in escape THEN
            Result([l EXCEPT !.token = t0, !.escapedstate = "a", !.state = c],
                   <<>>)
        ELSE IF c \in quotes THEN
            Result([l EXCEPT
                        !.token = IF l.placeholder THEN Append(t0, c) ELSE t0,
                        !.state = c],
                   <<>>)
        ELSE
            Result([l EXCEPT
                        !.token = IF l.placeholder THEN Marker ELSE <<c>>,
                        !.state = "a"],
                   <<>>)

IdleStep(l, c) ==
    LET t0 == IF l.keep /\ ~l.placeholder THEN Append(l.token, c) ELSE l.token
    IN  IF c \in whitespace THEN
            LET t1 == IF l.placeholder THEN Append(t0, c) ELSE t0
            IN  IF t1 # <<>> \/ l.quoted
                THEN Result(Reset(l), <<t1>>)
                ELSE Result([l EXCEPT !.token = t1], <<>>)
        ELSE IF c \in escape THEN
            Result([l EXCEPT !.token = t0, !.escapedstate = "a", !.state = c],
                   <<>>)
        ELSE IF c \in quotes THEN
            Result([l EXCEPT
                        !.token = IF l.placeholder THEN Append(t0, c) ELSE t0,
                        !.state = c],
                   <<>>)
        ELSE
            Result([l EXCEPT
                        !.token = IF l.placeholder THEN Marker ELSE <<c>>,
                        !.state = "a"],
                   <<>>)

(***************************************************************************)
(* State in quotes (lines 80-95).                                          *)
(***************************************************************************)
\* Variant: the closing quote is appended whether or not keep is set.
QuotedStepKeepsQuote(l, c) ==
    IF c = l.state THEN
        Result([l EXCEPT !.quoted = TRUE, !.token = Append(l.token, c),
                         !.state = "a"], <<>>)
    ELSE IF c \in escape /\ l.state \in escapedquotes THEN
        Result([l EXCEPT !.quoted = TRUE, !.escapedstate = l.state,
                         !.state = c], <<>>)
    ELSE
        Result([l EXCEPT !.quoted = TRUE, !.token = Append(l.token, c)], <<>>)

\* Variant: the escape character is honoured inside single quotes too.
QuotedStepEscapeAnyQuote(l, c) ==
    IF c = l.state THEN
        LET t0 == IF l.placeholder THEN l.token \o Marker ELSE l.token
            t1 == IF l.keep THEN Append(t0, c) ELSE t0
        IN  Result([l EXCEPT !.quoted = TRUE, !.token = t1, !.state = "a"],
                   <<>>)
    ELSE IF c \in escape THEN
        Result([l EXCEPT
                    !.quoted = TRUE,
                    !.token = IF l.keep /\ ~l.placeholder
                              THEN Append(l.token, c) ELSE l.token,
                    !.escapedstate = l.state,
                    !.state = c],
               <<>>)
    ELSE IF ~l.placeholder THEN
        Result([l EXCEPT !.quoted = TRUE, !.token = Append(l.token, c)], <<>>)
    ELSE
        Result([l EXCEPT !.quoted = TRUE], <<>>)

\* Variant: the closing quote ends the word (state ' ' instead of 'a').
QuotedStepCloseToIdle(l, c) ==
    IF c = l.state THEN
        LET t0 == IF l.placeholder THEN l.token \o Marker ELSE l.token
            t1 == IF l.keep THEN Append(t0, c) ELSE t0
        IN  Result([l EXCEPT !.quoted = TRUE, !.token = t1, !.state = " "],
                   <<>>)
    ELSE IF c \in escape /\ l.state \in escapedquotes THEN
        Result([l EXCEPT
                    !.quoted = TRUE,
                    !.token = IF l.keep /\ ~l.placeholder
                              THEN Append(l.token, c) ELSE l.token,
                    !.escapedstate = l.state,
                    !.state = c],
               <<>>)
    ELSE IF ~l.placeholder THEN
        Result([l EXCEPT !.quoted = TRUE, !.token = Append(l.token, c)], <<>>)
    ELSE
        Result([l EXCEPT !.quoted = TRUE], <<>>)

QuotedStep(l, c) ==
    IF c = l.state THEN
        LET t0 == IF l.placeholder THEN l.token \o Marker ELSE l.token
            t1 == IF l.keep THEN Append(t0, c) ELSE t0
        IN  Result([l EXCEPT !.quoted = TRUE, !.token = t1, !.state = "a"],
                   <<>>)
    ELSE IF c \in escape /\ l.state \in escapedquotes THEN
        Result([l EXCEPT
                    !.quoted = TRUE,
                    !.token = IF l.keep /\ ~l.placeholder
                              THEN Append(l.token, c) ELSE l.token,
                    !.escapedstate = l.state,
                    !.state = c],
               <<>>)
    ELSE IF ~l.placeholder THEN
        Result([l EXCEPT !.quoted = TRUE, !.token = Append(l.token, c)], <<>>)
    ELSE
        Result([l EXCEPT !.quoted = TRUE], <<>>)

(***************************************************************************)
(* State in escape (lines 96-105).                                         *)
(***************************************************************************)
\* Variant: inside quotes the escape character is always kept as data.
EscapedStepLiteral(l, c) ==
    LET t0 == IF l.escapedstate \in quotes /\ ~l.keep
              THEN Append(l.token, l.state) ELSE l.token
        t1 == IF ~l.placeholder THEN Append(t0, c) ELSE t0
    IN  Result([l EXCEPT !.token = t1, !.state = l.escapedstate], <<>>)

\* Variant: the escape character is never put back in front of a character
\* it does not escape.
EscapedStepNoReappend(l, c) ==
    LET t1 == IF ~l.placeholder THEN Append(l.token, c) ELSE l.token
    IN  Result([l EXCEPT !.token = t1, !.state = l.escapedstate], <<>>)

\* Variant: outside quotes the escaped character is dropped with the
\* escape character.
EscapedStepDropsChar(l, c) ==
    LET t0 == IF /\ l.escapedstate \in quotes
                 /\ c # l.state
                 /\ c # l.escapedstate
                 /\ ~l.keep
              THEN Append(l.token, l.state) ELSE l.token
        t1 == IF ~l.placeholder /\ l.escapedstate \in quotes
              THEN Append(t0, c) ELSE t0
    IN  Result([l EXCEPT !.token = t1, !.state = l.escapedstate], <<>>)

\* Variant: the escaped character is appended in placeholder mode too.
EscapedStepAppendAlways(l, c) ==
    LET t0 == IF /\ l.escapedstate \in quotes
                 /\ c # l.state
                 /\ c # l.escapedstate
                 /\ ~l.keep
              THEN Append(l.token, l.state) ELSE l.token
    IN  Result([l EXCEPT !.token = Append(t0, c), !.state = l.escapedstate],
               <<>>)

\* Variant: in keep mode the escape state is left for the word state
\* instead of the state it was entered from.
EscapedStepKeepToWord(l, c) ==
    LET t0 == IF /\ l.escapedstate \in quotes
                 /\ c # l.state
                 /\ c # l.escapedstate
                 /\ ~l.keep
              THEN Append(l.token, l.state) ELSE l.token
        t1 == IF ~l.placeholder THEN Append(t0, c) ELSE t0
    IN  Result([l EXCEPT !.token = t1,
                         !.state = IF l.keep THEN "a" ELSE l.escapedstate],
               <<>>)

EscapedStep(l, c) ==
    LET t0 == IF /\ l.escapedstate \in quotes
                 /\ c # l.state
                 /\ c # l.escapedstate
                 /\ ~l.keep
              THEN Append(l.token, l.state) ELSE l.token
        t1 == IF ~l.placeholder THEN Append(t0, c) ELSE t0
    IN  Result([l EXCEPT !.token = t1, !.state = l.escapedstate], <<>>)

(***************************************************************************)
(* State 'a' (lines 106-125).                                              *)
(***************************************************************************)
\* Variant: an ordinary character is appended in placeholder mode too.
WordStepAppendAlways(l, c) ==
    IF c \in whitespace THEN
        LET l1 == [l EXCEPT !.state = " "]
            sp == IF l.keep THEN <<(<<c>>)>> ELSE <<>>
        IN  IF l1.token # <<>> \/ l1.quoted
            THEN Result(Reset(l1), <<l1.token>> \o sp)
            ELSE Result(l1, sp)
    ELSE IF c \in quotes THEN
        Result([l EXCEPT
                    !.token = IF l.keep THEN Append(l.token, c) ELSE l.token,
                    !.state = c],
               <<>>)
    ELSE IF c \in escape THEN
        Result([l EXCEPT
                    !.token = IF l.keep /\ ~l.placeholder
                              THEN Append(l.token, c) ELSE l.token,
                    !.escapedstate = "a",
                    !.state = c],
               <<>>)
    ELSE
        Result([l EXCEPT !.token = Append(l.token, c)], <<>>)

\* Variant: the token is yielded on whitespace without the reset after it.
WordStepNoReset(l, c) ==
    IF c \in whitespace THEN
        LET l1 == [l EXCEPT !.state = " "]
            sp == IF l.keep THEN <<(<<c>>)>> ELSE <<>>
        IN  IF l1.token # <<>> \/ l1.quoted
            THEN Result(l1, <<l1.token>> \o sp)
            ELSE Result(l1, sp)
    ELSE IF c \in quotes THEN
        Result([l EXCEPT
                    !.token = IF l.keep THEN Append(l.token, c) ELSE l.token,
                    !.state = c],
               <<>>)
    ELSE IF c \in escape THEN
        Result([l EXCEPT
                    !.token = IF l.keep /\ ~l.placeholder
                              THEN Append(l.token, c) ELSE l.token,
                    !.escapedstate = "a",
                    !.state = c],
               <<>>)
    ELSE IF ~l.placeholder THEN
        Result([l EXCEPT !.token = Append(l.token, c)], <<>>)
    ELSE
        Result(l, <<>>)

\* Variant: the whitespace character is yielded before the word it ends.
WordStepSpaceFirst(l, c) ==
    IF c \in whitespace THEN
        LET l1 == [l EXCEPT !.state = " "]
            sp == IF l.keep THEN <<(<<c>>)>> ELSE <<>>
        IN  IF l1.token # <<>> \/ l1.quoted
            THEN Result(Reset(l1), sp \o <<l1.token>>)
            ELSE Result(l1, sp)
    ELSE IF c \in quotes THEN
        Result([l EXCEPT
                    !.token = IF l.keep THEN Append(l.token, c) ELSE l.token,
                    !.state = c],
               <<>>)
    ELSE IF c \in escape THEN
        Result([l EXCEPT
                    !.token = IF l.keep /\ ~l.placeholder
                              THEN Append(l.token, c) ELSE l.token,
                    !.escapedstate = "a",
                    !.state = c],
               <<>>)
    ELSE IF ~l.placeholder THEN
        Result([l EXCEPT !.token = Append(l.token, c)], <<>>)
    ELSE
        Result(l, <<>>)

WordStep(l, c) ==
    IF c \in whitespace THEN
        LET l1 == [l EXCEPT !.state = " "]
            sp == IF l.keep THEN <<(<<c>>)>> ELSE <<>>
        IN  IF l1.token # <<>> \/ l1.quoted
            THEN Result(Reset(l1), <<l1.token>> \o sp)
            ELSE Result(l1, sp)
    ELSE IF c \in quotes THEN
        Result([l EXCEPT
                    !.token = IF l.keep THEN Append(l.token, c) ELSE l.token,
                    !.state = c],
               <<>>)
    ELSE IF c \in escape THEN
        Result([l EXCEPT
                    !.token = IF l.keep /\ ~l.placeholder
                              THEN Append(l.token, c) ELSE l.token,
                    !.escapedstate = "a",
                    !.state = c],
               <<>>)
    ELSE IF ~l.placeholder THEN
        Result([l EXCEPT !.token = Append(l.token, c)], <<>>)
    ELSE
        Result(l, <<>>)

(***************************************************************************)
(* The body of the for loop (lines 54-125): the if/elif chain on state.    *)
(* A state matching no branch leaves the lexer as it is.                   *)
(***************************************************************************)
Step(l, c) ==
    IF l.state = " " THEN IdleStep(l, c)
    ELSE IF l.state \in quotes THEN QuotedStep(l, c)
    ELSE IF l.state \in escape THEN EscapedStep(l, c)
    ELSE IF l.state = "a" THEN WordStep(l, c)
    ELSE Result(l, <<>>)

(***************************************************************************)
(* After the loop (lines 126-129).  `raised` is whether the generator      *)
(* ends with an exception: no statement of __iter__ raises one.            *)
(***************************************************************************)
\* Variant: shlex's own end of input, which rejects an open quote and a
\* dangling escape character.
EndOfInputStrict(l) ==
    IF l.state \in quotes \cup escape
    THEN [lex |-> l, yield |-> <<>>, raised |-> TRUE]
    ELSE [lex |-> l,
          yield |-> IF l.token # <<>> \/ l.quoted THEN <<l.token>> ELSE <<>>,
          raised |-> FALSE]

\* Variant: the trailing escape character is appended in keep mode too.
EndOfInputAppendAlways(l) ==
    LET t == IF l.state \in escape THEN Append(l.token, l.state) ELSE l.token
    IN  [lex |-> [l EXCEPT !.token = t],
         yield |-> IF t # <<>> \/ l.quoted THEN <<t>> ELSE <<>>,
         raised |-> FALSE]

\* Variant: a token left unfinished by an open quote or a dangling escape
\* character is dropped.
EndOfInputDropsOpen(l) ==
    [lex |-> l,
     yield |-> IF l.state \notin quotes \cup escape
                  /\ (l.token # <<>> \/ l.quoted)
               THEN <<l.token>> ELSE <<>>,
     raised |-> FALSE]

EndOfInput(l) ==
    LET t == IF l.state \in escape /\ ~l.keep
             THEN Append(l.token, l.state) ELSE l.token
    IN  [lex |-> [l EXCEPT !.token = t],
         yield |-> IF t # <<>> \/ l.quoted THEN <<t>> ELSE <<>>,
         raised |-> FALSE]

(***************************************************************************)
(* split(), lines 146-162: whitespace fragments are prepended to the next  *)
(* fragment that is not whitespace.                                        *)
(***************************************************************************)
\* Variant: the whitespace left after the loop is not appended.
RECURSIVE MergeFromNoTail(_, _, _, _)
MergeFromNoTail(toks, i, acc, spaces) ==
    IF i > Len(toks) THEN acc
    ELSE IF isspace(toks[i]) THEN
        MergeFromNoTail(toks, i + 1, acc, spaces \o toks[i])
    ELSE
        MergeFromNoTail(toks, i + 1, Append(acc, spaces \o toks[i]), <<>>)

\* Variant: the pending whitespace is not prepended to the next fragment.
RECURSIVE MergeFromDropSpaces(_, _, _, _)
MergeFromDropSpaces(toks, i, acc, spaces) ==
    IF i > Len(toks) THEN
        IF spaces # <<>> THEN Append(acc, spaces) ELSE acc
    ELSE IF isspace(toks[i]) THEN
        MergeFromDropSpaces(toks, i + 1, acc, spaces \o toks[i])
    ELSE
        MergeFromDropSpaces(toks, i + 1, Append(acc, toks[i]), <<>>)

RECURSIVE MergeFrom(_, _, _, _)
MergeFrom(toks, i, acc, spaces) ==
    IF i > Len(toks) THEN
        IF spaces # <<>> THEN Append(acc, spaces) ELSE acc
    ELSE IF isspace(toks[i]) THEN
        MergeFrom(toks, i + 1, acc, spaces \o toks[i])
    ELSE
        MergeFrom(toks, i + 1, Append(acc, spaces \o toks[i]), <<>>)

Merge(toks) == IF toks = <<>> THEN <<>> ELSE MergeFrom(toks, 1, <<>>, <<>>)

(***************************************************************************)
(* split(), lines 140-144: the mode of the lexer.                          *)
(***************************************************************************)
\* Variant: both flags are copied from the arguments as given.
ConfigureAsGiven(l, k, p) == [l EXCEPT !.placeholder = p, !.keep = k]

Configure(l, k, p) ==
    IF p
    THEN [l EXCEPT !.placeholder = TRUE, !.keep = TRUE]
    ELSE [l EXCEPT !.keep = k]

(***************************************************************************)
(* The call split(s, keep, placeholder).                                   *)
(***************************************************************************)
\* No concurrent calls.
PairIdle == heap = <<>> /\ calls = <<>>

\* After line 139: the arguments are bound and the lexer is constructed.
Init ==
    /\ PairIdle /\ SettingIdle /\ IPCIdle /\ AgainIdle /\ UrlIdle
    /\ s \in Sources
    /\ keep \in BOOLEAN
    /\ placeholder \in BOOLEAN
    /\ lexer = ShellLexer(s)
    /\ pos = 0
    /\ tokens = <<>>
    /\ out = <<>>
    /\ pc = "constructed"

\* Lines 140-144.
SetMode ==
    /\ pc = "constructed"
    /\ lexer' = Configure(lexer, keep, placeholder)
    /\ pc' = "list"
    /\ UNCHANGED <<s, keep, placeholder, pos, tokens, out>>
    /\ UNCHANGED notSplitVars

\* list(lexer) starts the generator: line 53.
IterStart ==
    /\ pc = "list"
    /\ lexer' = Reset(lexer)
    /\ pos' = 0
    /\ pc' = "scan"
    /\ UNCHANGED <<s, keep, placeholder, tokens, out>>
    /\ UNCHANGED notSplitVars

\* One iteration of the for loop; list() collects what it yields.
IterChar ==
    /\ pc = "scan"
    /\ pos < Len(lexer.string)
    /\ LET r == Step(lexer, lexer.string[pos + 1])
       IN  /\ lexer' = r.lex
           /\ tokens' = tokens \o r.yield
    /\ pos' = pos + 1
    /\ UNCHANGED <<s, keep, placeholder, out, pc>>
    /\ UNCHANGED notSplitVars

\* The string is exhausted: lines 126-129, and the generator ends.
IterEnd ==
    /\ pc = "scan"
    /\ pos = Len(lexer.string)
    /\ LET r == EndOfInput(lexer)
       IN  /\ lexer' = r.lex
           /\ tokens' = tokens \o r.yield
           /\ pc' = IF r.raised THEN "raised" ELSE "merge"
    /\ UNCHANGED <<s, keep, placeholder, pos, out>>
    /\ UNCHANGED notSplitVars

\* Lines 146-162, and the return.
SplitMerge ==
    /\ pc = "merge"
    /\ out' = Merge(tokens)
    /\ pc' = "done"
    /\ UNCHANGED <<s, keep, placeholder, lexer, pos, tokens>>
    /\ UNCHANGED notSplitVars

Next == SetMode \/ IterStart \/ IterChar \/ IterEnd \/ SplitMerge

Spec == Init /\ [][Next]_vars

(***************************************************************************)
(* Two calls of split() whose steps interleave.  heap[i] is the i-th       *)
(* ShellLexer object constructed; a call's frame holds its arguments, its  *)
(* local `lexer` (an index into heap, 0 before line 139), the string the   *)
(* for loop iterates over and how far it is, list(lexer) and the result.   *)
(* Reading an attribute that reset() has not created is an AttributeError. *)
(***************************************************************************)
MaxPairLen == 2

Calls == {1, 2}

PairAlphabet == {" ", "a", "\"", "'", "\\"}

PairSources == UNION {[1..n -> PairAlphabet] : n \in 0..MaxPairLen}

\* a 'b
SrcOther == <<"a", " ", "'", "b">>

\* Line 139, ShellLexer(s): the place of the new object in the heap.
\* Variant: one module-level lexer serves every call.
NewLexerSingleton(h) == 1

\* Variant: the lexer of the previous call is taken again.
NewLexerRecycled(h) == IF h = <<>> THEN 1 ELSE Len(h)

NewLexer(h) == Len(h) + 1

Frame(str, k, p) ==
    [s |-> str, keep |-> k, placeholder |-> p, lexer |-> 0, iter |-> <<>>,
     pos |-> 0, tokens |-> <<>>, out |-> <<>>, pc |-> "start"]

\* The single call is not running.
SplitIdle ==
    /\ s = <<>> /\ keep = FALSE /\ placeholder = FALSE
    /\ lexer = ShellLexer(<<>>)
    /\ pos = 0 /\ tokens = <<>> /\ out = <<>> /\ pc = "idle"

InitPair ==
    /\ SplitIdle /\ SettingIdle /\ IPCIdle /\ AgainIdle /\ UrlIdle
    /\ heap = <<>>
    /\ \E s1 \in PairSources, k1, p1, k2, p2 \in BOOLEAN :
         \E s2 \in {s1, SrcOther} :
            calls = <<Frame(s1, k1, p1), Frame(s2, k2, p2)>>

\* Line 139.
PConstruct(c) ==
    /\ calls[c].pc = "start"
    /\ LET id == NewLexer(heap)
       IN  /\ heap' = IF id <= Len(heap)
                      THEN [heap EXCEPT ![id] = ShellLexer(calls[c].s)]
                      ELSE Append(heap, ShellLexer(calls[c].s))
           /\ calls' = [calls EXCEPT ![c].lexer = id,
                                     ![c].pc = "constructed"]
    /\ UNCHANGED notPairVars

\* Lines 140-144.
PSetMode(c) ==
    /\ calls[c].pc = "constructed"
    /\ heap' = [heap EXCEPT ![calls[c].lexer] =
                    Configure(@, calls[c].keep, calls[c].placeholder)]
    /\ calls' = [calls EXCEPT ![c].pc = "list"]
    /\ UNCHANGED notPairVars

\* list(lexer) starts the generator: line 53, and the for loop takes
\* self.string.
PIterStart(c) ==
    /\ calls[c].pc = "list"
    /\ heap' = [heap EXCEPT ![calls[c].lexer] = Reset(@)]
    /\ calls' = [calls EXCEPT ![c].iter = heap[calls[c].lexer].string,
                              ![c].pos = 0,
                              ![c].pc = "scan"]
    /\ UNCHANGED notPairVars

\* One iteration of the for loop.
PIterChar(c) ==
    /\ calls[c].pc = "scan"
    /\ calls[c].pos < Len(calls[c].iter)
    /\ IF "state" \in DOMAIN heap[calls[c].lexer]
       THEN LET r == Step(heap[calls[c].lexer],
                          calls[c].iter[calls[c].pos + 1])
            IN  /\ heap' = [heap EXCEPT ![calls[c].lexer] = r.lex]
                /\ calls' = [calls EXCEPT
                                ![c].tokens = @ \o r.yield,
                                ![c].pos = @ + 1]
       ELSE /\ calls' = [calls EXCEPT ![c].pc = "raised"]
            /\ UNCHANGED heap
    /\ UNCHANGED notPairVars

\* Lines 126-129, and the generator ends.
PIterEnd(c) ==
    /\ calls[c].pc = "scan"
    /\ calls[c].pos = Len(calls[c].iter)
    /\ IF "state" \in DOMAIN heap[calls[c].lexer]
       THEN LET r == EndOfInput(heap[calls[c].lexer])
            IN  /\ heap' = [heap EXCEPT ![calls[c].lexer] = r.lex]
                /\ calls' = [calls EXCEPT
                                ![c].tokens = @ \o r.yield,
                                ![c].pc = IF r.raised THEN "raised"
                                          ELSE "merge"]
       ELSE /\ calls' = [calls EXCEPT ![c].pc = "raised"]
            /\ UNCHANGED heap
    /\ UNCHANGED notPairVars

\* Lines 146-162, and the return.
PSplitMerge(c) ==
    /\ calls[c].pc = "merge"
    /\ calls' = [calls EXCEPT ![c].out = Merge(calls[c].tokens),
                              ![c].pc = "done"]
    /\ UNCHANGED heap
    /\ UNCHANGED notPairVars

NextPair ==
    \E c \in Calls :
        \/ PConstruct(c)
        \/ PSetMode(c)
        \/ PIterStart(c)
        \/ PIterChar(c)
        \/ PIterEnd(c)
        \/ PSplitMerge(c)

SpecPair == InitPair /\ [][NextPair]_vars

\* split(str, k, p) run on its own from line 139 to its return.
\* The lexer after the first n iterations of the for loop (line 54).
RECURSIVE Scan(_, _)
Scan(l, n) ==
    IF n = 0 THEN l ELSE Step(Scan(l, n - 1), l.string[n]).lex

\* The lexer of split(str, k, p) when list(lexer) has read n characters.
LexerAfter(str, k, p, n) ==
    Scan(Reset(Configure(ShellLexer(str), k, p)), n)

RECURSIVE ScanFrom(_, _, _)
ScanFrom(l, i, acc) ==
    IF i > Len(l.string)
    THEN acc \o EndOfInput(l).yield
    ELSE LET r == Step(l, l.string[i])
         IN  ScanFrom(r.lex, i + 1, acc \o r.yield)

SplitAlone(str, k, p) ==
    Merge(ScanFrom(Reset(Configure(ShellLexer(str), k, p)), 1, <<>>))

(***************************************************************************)
(* Vocabulary of the properties.                                           *)
(***************************************************************************)
RECURSIVE Concat(_)
Concat(ts) == IF ts = <<>> THEN <<>> ELSE Head(ts) \o Concat(Tail(ts))

Last(q) == q[Len(q)]

\* The generator has run to its end and list(lexer) is complete.
Exhausted == pc \in {"merge", "done"}

\* The step taken is one iteration of the for loop, on character Char.
CharStep == pc = "scan" /\ pos' = pos + 1
Char == lexer.string[pos + 1]

\* The step taken is the code after the loop.
EndStep == pc = "scan" /\ pc' # "scan"

States == {" ", "a", "'", "\"", "\\"}

(***************************************************************************)
(* C1: with keep=true and placeholder=false, for a source that ends        *)
(* neither in the escape state nor inside an open quote, the tokens split  *)
(* returns, concatenated in order, are the source.                         *)
(***************************************************************************)
C1_RoundTrip ==
    (pc = "done" /\ keep /\ ~placeholder /\ lexer.state \notin quotes \cup escape)
        => Concat(out) = s

C1_Witness ==
    /\ pc = "done" /\ keep /\ ~placeholder
    /\ lexer.state \notin quotes \cup escape
    /\ Len(out) >= 2
    /\ isspace(Last(out))
    /\ \E i \in 1..Len(s) : s[i] \in quotes
    /\ Concat(out) = s

(***************************************************************************)
(* C2: for every source and every combination of the flags the scan reads  *)
(* the characters one by one from left to right (the position only ever    *)
(* advances, by one, while scanning), ends exactly when the last character *)
(* has been read, and never ends in an exception; the state is always one  *)
(* of the five the loop handles, and the call runs on to its return.       *)
(***************************************************************************)
C2_Totality ==
    /\ [](pc # "raised")
    /\ [](pc = "scan" => pos <= Len(s) /\ lexer.state \in States)
    /\ [](Exhausted => pos = Len(s))
    /\ [](pc # "done" => ENABLED Next)
    /\ [][pos' # pos => CharStep /\ pc' = "scan" /\ lexer'.string = s]_vars

C2_Witness ==
    /\ pc = "done"
    /\ pos = Len(s)
    /\ Len(s) >= 3
    /\ lexer.state \in escape
    /\ lexer.escapedstate \in quotes

(***************************************************************************)
(* C3: for a source made only of tokenizer whitespace (the empty source    *)
(* included), split with keep=false (and placeholder=false) returns the    *)
(* empty list; with keep=true it returns the empty list for the empty      *)
(* source and otherwise the whole source as its one token.                 *)
(***************************************************************************)
C3_Blank ==
    (pc = "done" /\ \A i \in 1..Len(s) : s[i] \in whitespace)
        => /\ (~keep /\ ~placeholder) => out = <<>>
           /\ keep => out = IF s = <<>> THEN <<>> ELSE <<s>>

C3_Witness ==
    /\ pc = "done" /\ keep
    /\ s = SrcBlank
    /\ out = <<s>>

(***************************************************************************)
(* C4: with keep=false and placeholder=false, whitespace read inside a     *)
(* quoted segment is appended to the token and ends nothing, and neither   *)
(* the quote that opens a segment nor the one that closes it is appended;  *)
(* split('echo "a b" c') returns echo, a b, c.                             *)
(***************************************************************************)
TokEcho == <<"e", "c", "h", "o">>

C4_QuoteRemoval ==
    /\ []((pc = "done" /\ s = SrcEcho /\ ~keep /\ ~placeholder)
            => out = <<TokEcho, <<"a", " ", "b">>, <<"c">> >>)
    /\ [][(CharStep /\ ~lexer.keep) =>
            /\ (lexer.state \in quotes /\ Char \in whitespace)
                 => /\ tokens' = tokens
                    /\ lexer'.state = lexer.state
                    /\ lexer'.token = Append(lexer.token, Char)
            /\ (lexer.state \in {" ", "a"} /\ Char \in quotes)
                 => /\ lexer'.state = Char
                    /\ lexer'.token = lexer.token
            /\ (lexer.state \in quotes /\ Char = lexer.state)
                 => /\ lexer'.state = "a"
                    /\ lexer'.token = lexer.token]_vars

C4_Witness ==
    /\ pc = "done" /\ s = SrcEcho /\ ~keep /\ ~placeholder
    /\ Len(out) = 3
    /\ out[2] = <<"a", " ", "b">>

(***************************************************************************)
(* C5, as claimed: with keep=true split('echo "a b" c') returns exactly    *)
(* echo, "a b", c.                                                         *)
(***************************************************************************)
C5_Original ==
    (pc = "done" /\ s = SrcEcho /\ keep /\ ~placeholder)
        => out = <<TokEcho, <<"\"", "a", " ", "b", "\"">>, <<"c">> >>

(***************************************************************************)
(* C5, amended: with keep=true split('echo "a b" c') returns exactly three *)
(* tokens, echo, then "a b" and c each with the space before it prepended; *)
(* the quote characters are preserved in the second token.                 *)
(***************************************************************************)
C5_Amended ==
    (pc = "done" /\ s = SrcEcho /\ keep /\ ~placeholder)
        => out = <<TokEcho, <<" ", "\"", "a", " ", "b", "\"">>, <<" ", "c">> >>

C5_Witness ==
    /\ pc = "done" /\ s = SrcEcho /\ keep /\ ~placeholder
    /\ Len(out) = 3
    /\ out[2][1] = " "
    /\ out[2][2] = "\""

(***************************************************************************)
(* C6: with keep=false, a backslash read inside a double-quoted segment is *)
(* dropped, and a double quote read right after it is appended to the      *)
(* token and leaves the segment open; "a\"b" yields the one token a"b.     *)
(***************************************************************************)
C6_EscapedQuote ==
    /\ []((pc = "done" /\ s = SrcDqEsc /\ ~keep /\ ~placeholder)
            => out = << <<"a", "\"", "b">> >>)
    /\ [][(CharStep /\ ~lexer.keep) =>
            /\ (lexer.state = "\"" /\ Char = "\\")
                 => /\ lexer'.state = "\\"
                    /\ lexer'.escapedstate = "\""
                    /\ lexer'.token = lexer.token
                    /\ tokens' = tokens
            /\ (lexer.state = "\\" /\ lexer.escapedstate = "\"" /\ Char = "\"")
                 => /\ lexer'.state = "\""
                    /\ lexer'.token = Append(lexer.token, "\"")
                    /\ tokens' = tokens]_vars

C6_Witness ==
    /\ pc = "done" /\ s = SrcDqEsc /\ ~keep /\ ~placeholder
    /\ out = << <<"a", "\"", "b">> >>
    /\ lexer.escapedstate = "\""

(***************************************************************************)
(* C7: from the single-quote state the scanner never enters the escape     *)
(* state, whatever the flags; with keep=false a backslash read there is    *)
(* appended to the token, and the character after it is read as any other  *)
(* character of the segment: appended unchanged unless it is the closing   *)
(* single quote; 'a\b' yields the token a\b.                               *)
(***************************************************************************)
C7_SingleQuoteLiteral ==
    /\ []((pc = "done" /\ s = SrcSqEsc /\ ~keep /\ ~placeholder)
            => out = << <<"a", "\\", "b">> >>)
    /\ [][(CharStep /\ lexer.state = "'") =>
            /\ lexer'.state \in {"'", "a"}
            /\ lexer'.escapedstate = lexer.escapedstate
            /\ (~lexer.keep /\ Char = "\\")
                 => /\ lexer'.state = "'"
                    /\ lexer'.token = Append(lexer.token, "\\")
            /\ (~lexer.keep /\ pos >= 1 /\ lexer.string[pos] = "\\" /\ Char # "'")
                 => /\ lexer'.state = "'"
                    /\ lexer'.token = Append(lexer.token, Char)
                    /\ lexer.token # <<>>
                    /\ Last(lexer.token) = "\\"]_vars

C7_Witness ==
    /\ pc = "done" /\ s = SrcSqEsc /\ ~keep /\ ~placeholder
    /\ out = << <<"a", "\\", "b">> >>
    /\ lexer.quoted

(***************************************************************************)
(* C8: before the end of input a fragment is yielded only on whitespace    *)
(* read in state ' ' or 'a'; the closing quote leads to state 'a' and      *)
(* yields nothing, so quoted and unquoted segments with no unquoted        *)
(* whitespace between them are one token: with keep=false split('a"b c"d') *)
(* returns the one token 'ab cd'.                                          *)
(***************************************************************************)
C8_TokenEnds ==
    /\ []((pc = "done" /\ s = SrcMixed /\ ~keep /\ ~placeholder)
            => out = << <<"a", "b", " ", "c", "d">> >>)
    /\ [][(CharStep /\ tokens' # tokens)
            => (Char \in whitespace /\ lexer.state \in {" ", "a"})]_vars
    /\ [][(CharStep /\ lexer.state \in quotes /\ Char = lexer.state)
            => (lexer'.state = "a" /\ tokens' = tokens)]_vars

C8_Witness ==
    /\ pc = "done" /\ s = SrcMixed /\ ~keep /\ ~placeholder
    /\ Len(out) = 1
    /\ Len(out[1]) = 5

(***************************************************************************)
(* C9: when the input ends while a quote is open, no exception is raised   *)
(* and the token accumulated so far is yielded as the last fragment; with  *)
(* keep=false split("'abc") returns ['abc'].                               *)
(***************************************************************************)
C9_UnterminatedQuote ==
    /\ pc # "raised"
    /\ (Exhausted /\ lexer.state \in quotes)
          => (tokens # <<>> /\ Last(tokens) = lexer.token)
    /\ (pc = "done" /\ s = SrcOpen /\ ~keep /\ ~placeholder)
          => out = << <<"a", "b", "c">> >>

(***************************************************************************)
(* C10: when the input ends in the escape state, with keep=false the code  *)
(* after the loop appends a backslash to the token and yields it as the    *)
(* last fragment, whichever state the escape was entered from; with        *)
(* keep=true it appends nothing.                                           *)
(***************************************************************************)
C10_TrailingEscape ==
    [][(EndStep /\ lexer.state \in escape) =>
        /\ pc' = "merge"
        /\ lexer.escapedstate \in {"a", "\""}
        /\ ~lexer.keep
             => /\ lexer'.token = Append(lexer.token, "\\")
                /\ tokens' = Append(tokens, lexer'.token)
        /\ lexer.keep
             => /\ lexer'.token = lexer.token
                /\ tokens' \in {tokens, Append(tokens, lexer.token)}]_vars

C10_Witness ==
    /\ Exhausted /\ ~lexer.keep
    /\ lexer.state \in escape
    /\ lexer.escapedstate = "\""
    /\ Len(lexer.token) >= 2
    /\ Last(lexer.token) = "\\"
    /\ Last(tokens) = lexer.token

(***************************************************************************)
(* More vocabulary: contiguous and scattered occurrence.                   *)
(***************************************************************************)
\* sub occurs in q as a contiguous run that starts at index i.
OccursAt(sub, q, i) ==
    /\ i >= 1
    /\ i + Len(sub) - 1 <= Len(q)
    /\ \A j \in 1..Len(sub) : q[i + j - 1] = sub[j]

\* a is a subsequence of b: a is b with some characters left out.
RECURSIVE IsSubseq(_, _)
IsSubseq(a, b) ==
    IF a = <<>> THEN TRUE
    ELSE IF b = <<>> THEN FALSE
    ELSE IF Head(a) = Head(b) THEN IsSubseq(Tail(a), Tail(b))
    ELSE IsSubseq(a, Tail(b))

(***************************************************************************)
(* C12, as claimed: split('gvim -f "{}"', placeholder=True) has a token    *)
(* that holds the marker {} between two double quotes, and the text gvim   *)
(* and -f appears unchanged in the result, in source order before it.      *)
(***************************************************************************)
QuotedMarker == <<"\"", "{", "}", "\"">>

C12_Original ==
    (pc = "done" /\ s = SrcEditor /\ placeholder) =>
        /\ \E k \in 1..Len(out) :
              \E i \in 1..Len(out[k]) : OccursAt(QuotedMarker, out[k], i)
        /\ \E i, j, k \in 1..Len(Concat(out)) :
              /\ i < j /\ j < k
              /\ OccursAt(<<"g", "v", "i", "m">>, Concat(out), i)
              /\ OccursAt(<<"-", "f">>, Concat(out), j)
              /\ OccursAt(QuotedMarker, Concat(out), k)

(***************************************************************************)
(* C12, amended: split('gvim -f "{}"', placeholder=True) returns the three *)
(* tokens '{}', ' {}', ' "{}"': the last holds the marker {} between its   *)
(* two double quotes, the words gvim and -f are each replaced by the       *)
(* marker, and the spaces are kept, all in source order.                   *)
(***************************************************************************)
C12_Amended ==
    (pc = "done" /\ s = SrcEditor /\ placeholder) =>
        out = <<Marker, <<" ">> \o Marker, <<" ">> \o QuotedMarker>>

C12_Witness ==
    /\ pc = "done" /\ s = SrcEditor /\ placeholder
    /\ Len(out) = 3
    /\ OccursAt(QuotedMarker, out[3], 2)
    /\ \A i \in 1..Len(Concat(out)) : Concat(out)[i] # "g"

(***************************************************************************)
(* C14: with placeholder=false, keep true or false, the tokens split       *)
(* returns, concatenated, are a subsequence of the source: every character *)
(* of the output is a character of the source, in source order, none       *)
(* invented and none used twice.                                           *)
(***************************************************************************)
C14_OrderPreserved ==
    (pc = "done" /\ ~placeholder) => IsSubseq(Concat(out), s)

C14_Witness ==
    /\ pc = "done" /\ ~placeholder /\ ~keep
    /\ Len(out) >= 2
    /\ Len(Concat(out)) < Len(s)
    /\ \E i \in 1..Len(s) : s[i] \in escape
    /\ \E i \in 1..Len(s) : s[i] \in quotes
    /\ IsSubseq(Concat(out), s)

(***************************************************************************)
(* C19: whenever the scanner is in the escape state, the state recorded to *)
(* return to is 'a' or the double quote, never ' ' and never the single    *)
(* quote, and the iteration that reads the escaped character moves to      *)
(* exactly that recorded state.                                            *)
(***************************************************************************)
C19_EscapeReturn ==
    /\ []((pc \in {"scan", "merge", "done"} /\ lexer.state \in escape)
            => lexer.escapedstate \in {"a", "\""})
    /\ [][(CharStep /\ lexer.state \in escape)
            => (lexer'.state = lexer.escapedstate
                /\ lexer'.state \in {"a", "\""})]_vars

C19_Witness ==
    /\ pc = "scan"
    /\ pos >= 2
    /\ lexer.string[pos] \in escape
    /\ lexer.string[pos - 1] \in escape
    /\ lexer.state = "\""
    /\ lexer.escapedstate = "\""

(***************************************************************************)
(* C20: after the reset that starts the scan, a step turns quoted from     *)
(* true to false, or a non-empty token into the empty one, only if it is a *)
(* loop iteration that has yielded that token and reset the lexer; and a   *)
(* loop iteration that yields the token leaves the lexer reset (only the   *)
(* yield after the loop is not followed by a reset).                       *)
(***************************************************************************)
C20_ResetOnYield ==
    /\ [][(pc = "scan" /\ (\/ (lexer.quoted /\ ~lexer'.quoted)
                            \/ (lexer.token # <<>> /\ lexer'.token = <<>>)))
            => /\ CharStep
               /\ Len(tokens') > Len(tokens)
               /\ tokens'[Len(tokens) + 1] = lexer.token
               /\ lexer'.token = <<>>
               /\ ~lexer'.quoted
               /\ lexer'.state = " "]_vars
    /\ [][(/\ CharStep
           /\ tokens' # tokens
           /\ ~(lexer.state = "a" /\ lexer.token = <<>> /\ ~lexer.quoted))
            => /\ lexer'.token = <<>>
               /\ ~lexer'.quoted
               /\ lexer'.state = " "
               /\ lexer'.escapedstate = " "]_vars

C20_Witness ==
    /\ pc = "scan" /\ ~lexer.keep
    /\ Len(lexer.string) >= 3
    /\ lexer.string[1] \in quotes
    /\ tokens = << <<"a">> >>
    /\ lexer.token = <<>>
    /\ ~lexer.quoted
    /\ lexer.state = " "

(***************************************************************************)
(* Vocabulary of the properties of two calls.                              *)
(***************************************************************************)
PairDone == \A c \in Calls : calls[c].pc = "done"

SameSource == calls[1].s = calls[2].s

\* The ShellLexer object of call c.
LexerOf(c) == heap[calls[c].lexer]

(***************************************************************************)
(* C11: for every source, split(s, keep=False, placeholder=True) and       *)
(* split(s, keep=True, placeholder=True) return the same tokens: with      *)
(* placeholder true the lexer runs with keep and placeholder both true     *)
(* whatever the keep argument is.                                          *)
(***************************************************************************)
C11_PlaceholderForcesKeep ==
    /\ \A c \in Calls :
          (calls[c].pc \in {"list", "scan", "merge", "done"}
             /\ calls[c].placeholder)
            => (LexerOf(c).keep /\ LexerOf(c).placeholder)
    /\ (PairDone /\ SameSource /\ calls[1].placeholder /\ calls[2].placeholder)
          => calls[1].out = calls[2].out

C11_Witness ==
    /\ PairDone /\ SameSource
    /\ calls[1].placeholder /\ calls[2].placeholder
    /\ ~calls[1].keep /\ calls[2].keep
    /\ Len(calls[1].s) = MaxPairLen
    /\ calls[1].s[1] \in quotes
    /\ calls[1].out = calls[2].out
    /\ calls[1].out # <<>>

(***************************************************************************)
(* C13: two runs of split on the same source with the same flags return    *)
(* equal token lists (and yield equal fragments), in whatever order their  *)
(* steps are taken: what one run leaves in its lexer does not reach the    *)
(* other.                                                                  *)
(***************************************************************************)
C13_Deterministic ==
    /\ \A c \in Calls : calls[c].pc # "raised"
    /\ (/\ PairDone /\ SameSource
        /\ calls[1].keep = calls[2].keep
        /\ calls[1].placeholder = calls[2].placeholder)
          => /\ calls[1].out = calls[2].out
             /\ calls[1].tokens = calls[2].tokens

C13_Witness ==
    /\ calls[1].pc = "done" /\ calls[2].pc = "merge"
    /\ SameSource
    /\ ~calls[1].keep /\ ~calls[2].keep
    /\ ~calls[1].placeholder /\ ~calls[2].placeholder
    /\ LexerOf(1).quoted /\ LexerOf(1).token # <<>>
    /\ calls[1].tokens = calls[2].tokens
    /\ calls[1].out # <<>>

(***************************************************************************)
(* C15: two calls of split, each with its own ShellLexer, whose steps are  *)
(* interleaved in any order: the two lexers are different objects, a step  *)
(* of one call changes neither the frame nor the lexer of the other, no    *)
(* call raises, and each call returns what it returns when it runs alone.  *)
(***************************************************************************)
C15_Independent ==
    /\ [](\A c \in Calls : calls[c].pc # "raised")
    /\ []((calls[1].lexer # 0 /\ calls[2].lexer # 0)
            => calls[1].lexer # calls[2].lexer)
    /\ [](\A c \in Calls :
            calls[c].pc = "done"
              => calls[c].out = SplitAlone(calls[c].s, calls[c].keep,
                                           calls[c].placeholder))
    /\ [][\A c, d \in Calls :
            (c # d /\ calls'[c] # calls[c] /\ calls[d].lexer # 0)
              => /\ calls'[d] = calls[d]
                 /\ heap'[calls[d].lexer] = heap[calls[d].lexer]]_vars

C15_Witness ==
    /\ calls[1].pc = "scan" /\ calls[2].pc = "scan"
    /\ calls[1].pos >= 1 /\ calls[2].pos >= 1
    /\ calls[1].pos < Len(calls[1].iter)
    /\ calls[2].pos < Len(calls[2].iter)
    /\ ~SameSource
    /\ LexerOf(1).keep /\ ~LexerOf(2).keep
    /\ LexerOf(1).state # LexerOf(2).state
    /\ LexerOf(1).token # LexerOf(2).token

(***************************************************************************)
(* qutebrowser.config.value: SettingValue.                                 *)
(*                                                                         *)
(* _values is the OrderedDict as the sequence of its items.  A call        *)
(* returns a value or raises: [kind |-> "return", val |-> v] or            *)
(* [kind |-> "raise", val |-> name of the exception].                      *)
(***************************************************************************)
Layers == <<"temp", "conf", "default">>

\* Raw values of a setting; the empty string is a value that is false in
\* a Python condition.
RawValues == {"", "a", "b"}

Return(v) == [kind |-> "return", val |-> v]
Raise(e) == [kind |-> "raise", val |-> e]

\* collections.OrderedDict.fromkeys(keys)
FromKeys(keys) == [i \in 1..Len(keys) |-> [key |-> keys[i], val |-> None]]

\* d[k] = v on an OrderedDict: a key keeps its place, a new key goes last.
SetItem(d, k, v) ==
    IF \E i \in DOMAIN d : d[i].key = k
    THEN [i \in DOMAIN d |-> IF d[i].key = k THEN [d[i] EXCEPT !.val = v]
                                              ELSE d[i]]
    ELSE Append(d, [key |-> k, val |-> v])

\* d[k]
GetItem(d, k) == d[CHOOSE i \in DOMAIN d : d[i].key = k].val

SettingValue(default) == SetItem(FromKeys(Layers), "default", default)

GetLayers(d, startlayer) ==
    LET idx == CHOOSE i \in DOMAIN d : d[i].key = startlayer
    IN  SubSeq(d, idx, Len(d))

RECURSIVE FirstTruthy(_)
FirstTruthy(d) ==
    IF d = <<>> THEN Raise("ValueError")
    ELSE IF Head(d).val # None /\ Head(d).val # "" THEN Return(Head(d).val)
    ELSE FirstTruthy(Tail(d))

\* Variant: "if val:" instead of "if val is not None:".
GetFirstValueTruthy(d, startlayer) ==
    FirstTruthy(IF startlayer = None THEN d ELSE GetLayers(d, startlayer))

\* The loop of get_first_value over d.values().
RECURSIVE FirstValue(_)
FirstValue(d) ==
    IF d = <<>> THEN Raise("ValueError")
    ELSE IF Head(d).val # None THEN Return(Head(d).val)
    ELSE FirstValue(Tail(d))

GetFirstValue(d, startlayer) ==
    FirstValue(IF startlayer = None THEN d ELSE GetLayers(d, startlayer))

\* The property value.
Value(d) == GetFirstValue(d, None)

Called(op, arg, outcome) ==
    [op |-> op, arg |-> arg, kind |-> outcome.kind, val |-> outcome.val]

InitSetting ==
    /\ SplitIdle /\ PairIdle /\ IPCIdle /\ AgainIdle /\ UrlIdle
    /\ \E default \in RawValues \cup {None} :
          _values = SettingValue(default)
    /\ sv_last = Called("__init__", None, Return(None))

\* Variant: the layer is written before typ.validate is called.
SetvWriteFirst(layer, value, valid) ==
    /\ _values' = SetItem(_values, layer, value)
    /\ sv_last' = Called("setv", <<layer, value>>,
                         IF valid THEN Return(None)
                         ELSE Raise("ValidationError"))
    /\ UNCHANGED <<splitVars, pairVars, ipcVars, againVars, urlVars>>

\* setv(layer, value, interpolated); valid is whether typ.validate
\* returns rather than raises.
Setv(layer, value, valid) ==
    /\ IF valid
       THEN /\ _values' = SetItem(_values, layer, value)
            /\ sv_last' = Called("setv", <<layer, value>>, Return(None))
       ELSE /\ UNCHANGED _values
            /\ sv_last' = Called("setv", <<layer, value>>,
                                 Raise("ValidationError"))
    /\ UNCHANGED <<splitVars, pairVars, ipcVars, againVars, urlVars>>

ReadValue ==
    /\ sv_last' = Called("value", None, Value(_values))
    /\ UNCHANGED _values
    /\ UNCHANGED <<splitVars, pairVars, ipcVars, againVars, urlVars>>

ReadFirstValue(startlayer) ==
    /\ sv_last' = Called("get_first_value", startlayer,
                         GetFirstValue(_values, startlayer))
    /\ UNCHANGED _values
    /\ UNCHANGED <<splitVars, pairVars, ipcVars, againVars, urlVars>>

NextSetting ==
    \/ \E layer \in {Layers[i] : i \in DOMAIN Layers},
          value \in RawValues \cup {None}, valid \in BOOLEAN :
          Setv(layer, value, valid)
    \/ ReadValue
    \/ \E startlayer \in {Layers[i] : i \in DOMAIN Layers} :
          ReadFirstValue(startlayer)

SpecSetting == InitSetting /\ [][NextSetting]_vars

(***************************************************************************)
(* C16: when the last call on the SettingValue was a read of value, after  *)
(* any calls of setv on the layers temp, conf and default, it returned the *)
(* temp value if that is not None, else the conf value if that is not      *)
(* None, else the default value if that is not None, and raised ValueError *)
(* when all three are None; the three layers stay in that order.           *)
(***************************************************************************)
C16_LayeredValue ==
    /\ [i \in DOMAIN _values |-> _values[i].key] = Layers
    /\ sv_last.op = "value"
         => LET temp == GetItem(_values, "temp")
                conf == GetItem(_values, "conf")
                default == GetItem(_values, "default")
            IN  IF temp # None
                THEN sv_last.kind = "return" /\ sv_last.val = temp
                ELSE IF conf # None
                THEN sv_last.kind = "return" /\ sv_last.val = conf
                ELSE IF default # None
                THEN sv_last.kind = "return" /\ sv_last.val = default
                ELSE sv_last.kind = "raise" /\ sv_last.val = "ValueError"

C16_Witness ==
    /\ sv_last.op = "value"
    /\ GetItem(_values, "temp") = None
    /\ GetItem(_values, "conf") = ""
    /\ GetItem(_values, "default") = "a"
    /\ sv_last.kind = "return" /\ sv_last.val = ""

(***************************************************************************)
(* qutebrowser.utils.ipc: IPCServer and send_to_running_instance().        *)
(*                                                                         *)
(* socks[k] is the server-side QLocalSocket of the k-th connection that    *)
(* was established: st is "pending" while it waits in the QLocalServer,    *)
(* "open" once nextPendingConnection() has returned it, "closed" after     *)
(* close() or after the peer has gone, "deleted" once the event loop has   *)
(* run the deleteLater() request (doomed).  handlers is whether the        *)
(* server's three slots are connected to its signals, buf the number of    *)
(* unread lines, sent the lines the client got through, read the lines     *)
(* handed to the application, refused whether on_connection refused it.    *)
(***************************************************************************)
MaxSockets == 3

\* Values of QLocalSocket.error(); UnknownSocketError is the value of a
\* socket on which no error has occurred.
SocketErrors ==
    {"ConnectionRefusedError", "PeerClosedError", "ServerNotFoundError",
     "SocketTimeoutError", "UnknownSocketError"}

NewSocket(arrived) ==
    [st |-> "pending", handlers |-> FALSE, doomed |-> FALSE,
     buf |-> IF arrived THEN 1 ELSE 0,
     sent |-> IF arrived THEN 1 ELSE 0,
     read |-> 0, refused |-> FALSE]

\* QLocalSocket.close(): the connection and the unread data are gone.
Close(sock) == [sock EXCEPT !.st = "closed", !.buf = 0]

\* QObject.deleteLater()
DeleteLater(sock) == [sock EXCEPT !.doomed = TRUE]

\* Variant: the error is reported and the function returns.
_socket_errorLogged(action, socket) == Return(None)

\* _socket_error(action, socket): socket.errorString() on None is an
\* AttributeError.
_socket_error(action, socket) ==
    IF socket = NoSocket THEN Raise("AttributeError") ELSE Raise("IPCError")

\* A statement "f(...)" that ends a function: the exception of f, or the
\* function's return of None.
LastStatement(outcome) ==
    IF outcome.kind = "raise" THEN outcome ELSE Return(None)

\* The client's own QLocalSocket object.
ClientSocket == MaxSockets + 1

\* send_to_running_instance(cmdlist): connected is what waitForConnected
\* returned, error what socket.error() returns when it is read.
send_to_running_instance(connected, error) ==
    IF connected
    THEN IF error # "UnknownSocketError"
         THEN LastStatement(_socket_error("writing to running instance",
                                          ClientSocket))
         ELSE Return("True")
    ELSE IF error \notin {"ConnectionRefusedError", "ServerNotFoundError"}
         THEN LastStatement(_socket_error("connecting to running instance",
                                          ClientSocket))
         ELSE Return("False")

\* Variant: the new connection replaces the running one.
on_connectionOverwrite(cur, sk, k) ==
    [socket |-> k,
     socks |-> [sk EXCEPT ![k] = [@ EXCEPT !.st = "open", !.handlers = TRUE]]]

\* on_connection() with socket k returned by nextPendingConnection().
on_connection(cur, sk, k) ==
    IF cur # NoSocket
    THEN [socket |-> cur,
          socks |-> [sk EXCEPT
                       ![k] = [DeleteLater(Close(@)) EXCEPT !.refused = TRUE]]]
    ELSE [socket |-> k,
          socks |-> [sk EXCEPT
                       ![k] = [@ EXCEPT !.st = "open", !.handlers = TRUE]]]

Slot(op, k, outcome) ==
    [op |-> op, sock |-> k, kind |-> outcome.kind, val |-> outcome.val]

InitIPC ==
    /\ SplitIdle /\ PairIdle /\ SettingIdle /\ AgainIdle /\ UrlIdle
    /\ _socket = NoSocket
    /\ listening = TRUE
    /\ socks = <<>>
    /\ ipc_last = Slot("__init__", NoSocket, Return(None))
    /\ send_last = [op |-> "none", connected |-> FALSE,
                    error |-> "UnknownSocketError",
                    kind |-> "return", val |-> None]

\* Another instance calls send_to_running_instance(); when it connects,
\* the server gets a pending connection, with the line if it got through.
SendToRunningInstance(connected, error, arrived) ==
    /\ connected => (listening /\ Len(socks) < MaxSockets)
    /\ arrived => connected
    /\ (connected /\ error = "UnknownSocketError") => arrived
    /\ LET r == send_to_running_instance(connected, error)
       IN  send_last' = [op |-> "send_to_running_instance",
                         connected |-> connected, error |-> error,
                         kind |-> r.kind, val |-> r.val]
    /\ socks' = IF connected THEN Append(socks, NewSocket(arrived)) ELSE socks
    /\ UNCHANGED <<_socket, listening, ipc_last>>
    /\ UNCHANGED <<splitVars, pairVars, settingVars, againVars, urlVars>>

\* newConnection: the slot on_connection runs for the oldest pending socket.
OnConnection ==
    /\ listening
    /\ \E k \in DOMAIN socks :
          /\ socks[k].st = "pending"
          /\ \A j \in 1..(k - 1) : socks[j].st # "pending"
          /\ LET r == on_connection(_socket, socks, k)
             IN  /\ _socket' = r.socket
                 /\ socks' = r.socks
          /\ ipc_last' = Slot("on_connection", k, Return(None))
    /\ UNCHANGED <<listening, send_last>>
    /\ UNCHANGED <<splitVars, pairVars, settingVars, againVars, urlVars>>

\* readyRead of socket k: on_ready_read reads every line of self._socket
\* and hands it to the application.
OnReadyRead(k) ==
    /\ k \in DOMAIN socks
    /\ socks[k].st = "open" /\ socks[k].handlers /\ socks[k].buf > 0
    /\ IF _socket = NoSocket
       THEN /\ ipc_last' = Slot("on_ready_read", k, Raise("AttributeError"))
            /\ UNCHANGED socks
       ELSE /\ socks' = [socks EXCEPT
                           ![_socket] = [@ EXCEPT !.read = @ + socks[_socket].buf,
                                                  !.buf = 0]]
            /\ ipc_last' = Slot("on_ready_read", k, Return(None))
    /\ UNCHANGED <<_socket, listening, send_last>>
    /\ UNCHANGED <<splitVars, pairVars, settingVars, againVars, urlVars>>

\* on_disconnected without its last statement: the slot stays taken.
OnDisconnectedKeepsSocket(k) ==
    /\ k \in DOMAIN socks
    /\ socks[k].st = "open"
    /\ IF ~socks[k].handlers
       THEN /\ socks' = [socks EXCEPT ![k] = [@ EXCEPT !.st = "closed"]]
            /\ UNCHANGED <<_socket, ipc_last>>
       ELSE IF _socket = NoSocket
       THEN /\ socks' = [socks EXCEPT ![k] = [@ EXCEPT !.st = "closed"]]
            /\ ipc_last' = Slot("on_disconnected", k, Raise("AttributeError"))
            /\ UNCHANGED _socket
       ELSE /\ socks' = [[socks EXCEPT ![k] = [@ EXCEPT !.st = "closed"]]
                           EXCEPT ![_socket] = DeleteLater(@)]
            /\ UNCHANGED _socket
            /\ ipc_last' = Slot("on_disconnected", k, Return(None))
    /\ UNCHANGED <<listening, send_last>>
    /\ UNCHANGED <<splitVars, pairVars, settingVars, againVars, urlVars>>

\* The peer of socket k has gone: error(PeerClosedError) runs on_error,
\* which does nothing, and disconnected runs on_disconnected.
OnDisconnected(k) ==
    /\ k \in DOMAIN socks
    /\ socks[k].st = "open"
    /\ IF ~socks[k].handlers
       THEN /\ socks' = [socks EXCEPT ![k] = [@ EXCEPT !.st = "closed"]]
            /\ UNCHANGED <<_socket, ipc_last>>
       ELSE IF _socket = NoSocket
       THEN /\ socks' = [socks EXCEPT ![k] = [@ EXCEPT !.st = "closed"]]
            /\ ipc_last' = Slot("on_disconnected", k, Raise("AttributeError"))
            /\ UNCHANGED _socket
       ELSE /\ socks' = [[socks EXCEPT ![k] = [@ EXCEPT !.st = "closed"]]
                           EXCEPT ![_socket] = DeleteLater(@)]
            /\ _socket' = NoSocket
            /\ ipc_last' = Slot("on_disconnected", k, Return(None))
    /\ UNCHANGED <<listening, send_last>>
    /\ UNCHANGED <<splitVars, pairVars, settingVars, againVars, urlVars>>

\* error(e) of socket k runs on_error(e).
OnError(k, e) ==
    /\ k \in DOMAIN socks
    /\ socks[k].st = "open" /\ socks[k].handlers
    /\ e # "UnknownSocketError"
    /\ ipc_last' =
         Slot("on_error", k,
              IF e # "PeerClosedError"
              THEN LastStatement(_socket_error("handling IPC connection",
                                               _socket))
              ELSE Return(None))
    /\ UNCHANGED <<_socket, listening, socks, send_last>>
    /\ UNCHANGED <<splitVars, pairVars, settingVars, againVars, urlVars>>

\* shutdown(); removed is what QLocalServer.removeServer returns.  Closing
\* the QLocalServer drops the connections still pending in it.
Shutdown(removed) ==
    /\ listening
    /\ socks' = [k \in DOMAIN socks |->
                   IF k = _socket THEN DeleteLater(socks[k])
                   ELSE IF socks[k].st = "pending" THEN Close(socks[k])
                   ELSE socks[k]]
    /\ _socket' = NoSocket
    /\ listening' = FALSE
    /\ ipc_last' = Slot("shutdown", NoSocket,
                        IF removed THEN Return(None) ELSE Raise("IPCError"))
    /\ UNCHANGED send_last
    /\ UNCHANGED <<splitVars, pairVars, settingVars, againVars, urlVars>>

\* The event loop deletes a socket for which deleteLater() was called;
\* its signals are disconnected with it.
DeferredDelete(k) ==
    /\ k \in DOMAIN socks
    /\ socks[k].doomed /\ socks[k].st # "deleted"
    /\ socks' = [socks EXCEPT ![k] = [@ EXCEPT !.st = "deleted",
                                               !.handlers = FALSE,
                                               !.buf = 0]]
    /\ UNCHANGED <<_socket, listening, ipc_last, send_last>>
    /\ UNCHANGED <<splitVars, pairVars, settingVars, againVars, urlVars>>

NextIPC ==
    \/ \E connected \in BOOLEAN, error \in SocketErrors, arrived \in BOOLEAN :
          SendToRunningInstance(connected, error, arrived)
    \/ OnConnection
    \/ \E k \in 1..MaxSockets : OnReadyRead(k)
    \/ \E k \in 1..MaxSockets : OnDisconnected(k)
    \/ \E k \in 1..MaxSockets, e \in SocketErrors : OnError(k, e)
    \/ \E removed \in BOOLEAN : Shutdown(removed)
    \/ \E k \in 1..MaxSockets : DeferredDelete(k)

SpecIPC == InitIPC /\ [][NextIPC]_vars

(***************************************************************************)
(* C17: a step of on_connection taken while _socket is not None closes the *)
(* new socket, schedules it for deletion, connects no slot of the server   *)
(* to it and leaves _socket and the accepted socket as they were; a        *)
(* refused socket never has a slot connected and no line of it is ever     *)
(* handed to the application; at most one open socket has the server's     *)
(* slots connected.                                                        *)
(***************************************************************************)
C17_RefuseSecond ==
    /\ [][\A k \in DOMAIN socks :
            (/\ listening'
             /\ _socket # NoSocket
             /\ socks[k].st = "pending"
             /\ socks'[k].st # "pending")
              => /\ socks'[k].st = "closed"
                 /\ socks'[k].doomed
                 /\ ~socks'[k].handlers
                 /\ _socket' = _socket
                 /\ socks'[_socket] = socks[_socket]]_vars
    /\ [](\A k \in DOMAIN socks :
            socks[k].refused
              => /\ ~socks[k].handlers
                 /\ socks[k].read = 0
                 /\ socks[k].st \in {"closed", "deleted"})
    /\ [](Cardinality({k \in DOMAIN socks :
                         socks[k].st = "open" /\ socks[k].handlers}) <= 1)

C17_Witness ==
    /\ ipc_last.op = "on_connection"
    /\ _socket # NoSocket /\ _socket # ipc_last.sock
    /\ socks[_socket].st = "open" /\ socks[_socket].handlers
    /\ socks[ipc_last.sock].refused
    /\ socks[ipc_last.sock].sent = 1
    /\ socks[ipc_last.sock].read = 0
    /\ socks[ipc_last.sock].st = "closed"
    /\ socks[ipc_last.sock].doomed

Scanning == pc \in {"scan", "merge", "done"}

\* The source has a last character, read in state Idle, and it is a quote.
EndsAtOpeningQuote ==
    /\ Exhausted
    /\ s # <<>>
    /\ Last(s) \in quotes
    /\ lexer.state = Last(s)
    /\ \/ Len(s) = 1
       \/ s = <<"a", " ", Last(s)>>

(***************************************************************************)
(* C21: whenever the scanner is in a quoted state the quoted flag is true; *)
(* and when the source ends right after an opening quote that starts a     *)
(* token (the quote is the whole source, or follows "a "), the generator   *)
(* yields a last fragment at end of input, the empty string when           *)
(* keep=false.                                                             *)
(***************************************************************************)
C21_QuotedOnEntry ==
    /\ (Scanning /\ lexer.state \in quotes) => lexer.quoted
    /\ (EndsAtOpeningQuote /\ ~lexer.keep)
          => (tokens # <<>> /\ Last(tokens) = <<>>)

\* The number of empty strings in a list of strings.
CountEmpty(q) == Cardinality({i \in 1..Len(q) : q[i] = <<>>})

(***************************************************************************)
(* C22: with keep=false and placeholder=false, when the scanner is in the  *)
(* word state with an empty token and quoted true (a quoted segment was    *)
(* opened and closed with nothing in it) and reads a whitespace character  *)
(* or reaches the end of input, it yields the empty string as a fragment;  *)
(* and split returns every empty fragment as a token of its own: the       *)
(* returned list has as many empty strings as the fragments have.          *)
(***************************************************************************)
C22_EmptyQuoted ==
    /\ [][(/\ pc = "scan" /\ ~lexer.keep /\ ~lexer.placeholder
           /\ lexer.state = "a" /\ lexer.token = <<>> /\ lexer.quoted
           /\ (EndStep \/ (CharStep /\ Char \in whitespace)))
            => tokens' = Append(tokens, <<>>)]_vars
    /\ []((pc = "done" /\ ~keep /\ ~placeholder)
            => CountEmpty(out) = CountEmpty(tokens))

(***************************************************************************)
(* C23: with keep=false, a step in the escape state entered from the       *)
(* double-quoted state appends the backslash and then the character read   *)
(* when that character is neither a backslash nor a double quote, appends  *)
(* only the character read when it is one of the two, yields nothing, and  *)
(* in both cases returns to the double-quoted state.                       *)
(***************************************************************************)
C23_InvalidEscape ==
    [][(/\ CharStep /\ ~lexer.keep
        /\ lexer.state \in escape /\ lexer.escapedstate = "\"")
         => /\ lexer'.token =
                 lexer.token \o (IF Char \notin {"\\", "\""}
                                 THEN <<"\\", Char>> ELSE <<Char>>)
            /\ lexer'.state = "\""
            /\ tokens' = tokens]_vars

C23_Witness ==
    /\ pc = "scan" /\ ~keep /\ ~placeholder
    /\ pos = 4
    /\ s = <<"\"", "a", "\\", "a">>
    /\ lexer.token = <<"a", "\\", "a">>
    /\ lexer.state = "\""

(***************************************************************************)
(* C24: with keep=false and placeholder=false, a backslash read in the     *)
(* idle or the word state is not appended and moves the scanner to the     *)
(* escape state with the word state to return to; the step in that escape  *)
(* state appends the character read, whatever it is, yields nothing,       *)
(* leaves quoted as it is and continues in the word state, so that         *)
(* split('a\ a') is ['a a'].                                               *)
(***************************************************************************)
C24_EscapeOutsideQuotes ==
    /\ [][(/\ CharStep /\ ~lexer.keep /\ ~lexer.placeholder
           /\ lexer.state \in {" ", "a"} /\ Char \in escape)
            => /\ lexer'.token = lexer.token
               /\ lexer'.state \in escape
               /\ lexer'.escapedstate = "a"
               /\ tokens' = tokens]_vars
    /\ [][(/\ CharStep /\ ~lexer.keep /\ ~lexer.placeholder
           /\ lexer.state \in escape /\ lexer.escapedstate = "a")
            => /\ lexer'.token = Append(lexer.token, Char)
               /\ lexer'.state = "a"
               /\ lexer'.quoted = lexer.quoted
               /\ tokens' = tokens]_vars
    /\ []((pc = "done" /\ ~keep /\ ~placeholder
             /\ s = <<"a", "\\", " ", "a">>)
            => out = << <<"a", " ", "a">> >>)

C24_Witness ==
    /\ pc = "done" /\ ~keep /\ ~placeholder
    /\ s = <<"\\", "\"", " ", "a">>
    /\ out = << <<"\"">>, <<"a">> >>

(***************************************************************************)
(* C25: when lexer.keep is true, a step that reads a whitespace character  *)
(* in the idle or the word state yields that character as a fragment of    *)
(* its own, after the fragment of the word it ends (if the word has a      *)
(* token or was quoted) and as the last fragment yielded so far, and       *)
(* leaves the scanner in the idle state with an empty token.               *)
(***************************************************************************)
C25_WhitespaceFragments ==
    [][(/\ CharStep /\ lexer.keep
        /\ lexer.state \in {" ", "a"} /\ Char \in whitespace)
         => /\ tokens' =
                 tokens
                 \o (IF lexer.state = "a" /\ (lexer.token # <<>> \/ lexer.quoted)
                     THEN <<lexer.token>> ELSE <<>>)
                 \o << <<Char>> >>
            /\ lexer'.state = " "
            /\ lexer'.token = <<>>]_vars

C25_Witness ==
    /\ pc = "scan" /\ keep /\ ~placeholder
    /\ pos = 3
    /\ s[1] = "a" /\ s[2] = "\t" /\ s[3] = " "
    /\ tokens = << <<"a">>, <<"\t">>, <<" ">> >>
    /\ lexer.state = " " /\ lexer.token = <<>>

(***************************************************************************)
(* Vocabulary of the fragment properties.                                  *)
(***************************************************************************)
\* t is not empty and made only of characters of the whitespace class
\* {space, tab, carriage return}.
IsBlank(t) == t # <<>> /\ \A i \in 1..Len(t) : t[i] \in whitespace

\* t is not empty and made only of line feeds.
IsLineFeeds(t) == t # <<>> /\ \A i \in 1..Len(t) : t[i] = "\n"

\* The marker {} occurs in t.
HasMarker(t) == \E i \in 1..Len(t) : OccursAt(Marker, t, i)

(***************************************************************************)
(* C26: with keep=false and placeholder=false no fragment the tokenizer    *)
(* yields is made only of whitespace, and split returns the fragments      *)
(* unchanged, one token per fragment.                                      *)
(***************************************************************************)
C26_NoWhitespaceFragments ==
    (pc = "done" /\ ~keep /\ ~placeholder)
        => /\ \A i \in 1..Len(tokens) : ~IsBlank(tokens[i])
           /\ out = tokens

(***************************************************************************)
(* C27: the tokens split returns, concatenated, are the fragments          *)
(* concatenated; and their number is the number of fragments that are not  *)
(* made only of whitespace, plus one if the last fragment is made only of  *)
(* whitespace.                                                             *)
(***************************************************************************)
C27_SplitterLossless ==
    pc = "done"
        => /\ Concat(out) = Concat(tokens)
           /\ Len(out) =
                 Cardinality({i \in 1..Len(tokens) : ~IsBlank(tokens[i])})
                 + (IF tokens # <<>> /\ IsBlank(Last(tokens)) THEN 1 ELSE 0)

(***************************************************************************)
(* C28: a line feed read in the idle state starts a word like any ordinary *)
(* character, and split returns every fragment made only of line feeds as  *)
(* a token of its own: it is neither kept back as pending whitespace nor   *)
(* joined to the fragment after it.                                        *)
(***************************************************************************)
C28_LineFeedIsWord ==
    /\ [][(CharStep /\ lexer.state = " " /\ Char = "\n")
            => (lexer'.state = "a" /\ tokens' = tokens)]_vars
    /\ []((pc = "done" /\ ~placeholder)
            => \A i \in 1..Len(tokens) :
                  IsLineFeeds(tokens[i])
                    => \E j \in 1..Len(out) : out[j] = tokens[i])

(***************************************************************************)
(* C29: in placeholder mode every fragment that is not a whitespace run    *)
(* contains the marker {}, and a source that has a character outside the   *)
(* whitespace class (so has a token) gives at least one fragment with the  *)
(* marker: also when the token is an escape sequence only or ends in an    *)
(* open quote.                                                             *)
(***************************************************************************)
C29_MarkerInEveryToken ==
    (Exhausted /\ lexer.placeholder)
        => /\ \A i \in 1..Len(tokens) :
                 ~IsBlank(tokens[i]) => HasMarker(tokens[i])
           /\ (\E i \in 1..Len(s) : s[i] \notin whitespace)
                 => \E i \in 1..Len(tokens) : HasMarker(tokens[i])

(***************************************************************************)
(* One ShellLexer object iterated more than once.  Every list(lexer)       *)
(* calls __iter__, which makes a new generator: the generator starts with  *)
(* reset() (line 53) and a new iterator over self.string (line 54).        *)
(***************************************************************************)
MaxPasses == 2

\* The object after ShellLexer(str) and the assignment of its two flags.
Flagged(str, k, p) == [ShellLexer(str) EXCEPT !.keep = k, !.placeholder = p]

InitAgain ==
    /\ SplitIdle /\ PairIdle /\ SettingIdle /\ IPCIdle /\ UrlIdle
    /\ \E str \in PairSources \cup {SrcOther}, k \in BOOLEAN, p \in BOOLEAN :
          it_lexer = Flagged(str, k, p)
    /\ it_pos = 0
    /\ it_cur = <<>>
    /\ it_lists = <<>>
    /\ it_pc = "idle"

\* list(lexer) starts a generator: line 53.
AgainStart ==
    /\ it_pc = "idle"
    /\ Len(it_lists) < MaxPasses
    /\ it_lexer' = Reset(it_lexer)
    /\ it_pos' = 0
    /\ it_cur' = <<>>
    /\ it_pc' = "scan"
    /\ UNCHANGED it_lists
    /\ UNCHANGED <<splitVars, pairVars, settingVars, ipcVars, urlVars>>

\* One iteration of the for loop.
AgainChar ==
    /\ it_pc = "scan"
    /\ it_pos < Len(it_lexer.string)
    /\ LET r == Step(it_lexer, it_lexer.string[it_pos + 1])
       IN  /\ it_lexer' = r.lex
           /\ it_cur' = it_cur \o r.yield
    /\ it_pos' = it_pos + 1
    /\ UNCHANGED <<it_lists, it_pc>>
    /\ UNCHANGED <<splitVars, pairVars, settingVars, ipcVars, urlVars>>

\* Lines 126-129; the generator ends and list() returns.
AgainEnd ==
    /\ it_pc = "scan"
    /\ it_pos = Len(it_lexer.string)
    /\ LET r == EndOfInput(it_lexer)
       IN  /\ it_lexer' = r.lex
           /\ it_lists' = Append(it_lists, it_cur \o r.yield)
           /\ it_pc' = IF r.raised THEN "raised" ELSE "idle"
    /\ it_cur' = <<>>
    /\ UNCHANGED it_pos
    /\ UNCHANGED <<splitVars, pairVars, settingVars, ipcVars, urlVars>>

NextAgain == AgainStart \/ AgainChar \/ AgainEnd

SpecAgain == InitAgain /\ [][NextAgain]_vars

(***************************************************************************)
(* C30: when an iteration over a ShellLexer object has run to exhaustion   *)
(* and yielded fragments, a second iteration over the same object does not *)
(* yield that fragment sequence again.                                     *)
(***************************************************************************)
C30_NotRestartable ==
    (it_pc = "idle" /\ Len(it_lists) >= 2 /\ it_lists[1] # <<>>)
        => it_lists[2] # it_lists[1]

(***************************************************************************)
(* C31: a step of on_disconnected for the accepted socket leaves _socket   *)
(* None; _socket stays None until a step of on_connection; and a step of   *)
(* on_connection taken while _socket is None accepts the new socket: it is *)
(* open, has the server's slots connected, is not closed or scheduled for  *)
(* deletion, and is stored in _socket.                                     *)
(***************************************************************************)
C31_SlotFreed ==
    /\ [][\A k \in DOMAIN socks :
            (/\ socks[k].st = "open" /\ socks[k].handlers
             /\ _socket = k
             /\ socks'[k].st = "closed")
            => _socket' = NoSocket]_vars
    /\ [][(_socket = NoSocket /\ _socket' # NoSocket)
            => (/\ _socket' \in DOMAIN socks
                /\ socks[_socket'].st = "pending"
                /\ ipc_last' = Slot("on_connection", _socket', Return(None)))]_vars
    /\ [][\A k \in DOMAIN socks :
            (/\ listening'
             /\ _socket = NoSocket
             /\ socks[k].st = "pending"
             /\ socks'[k].st # "pending")
            => (/\ _socket' = k
                /\ socks'[k].st = "open"
                /\ socks'[k].handlers
                /\ ~socks'[k].doomed)]_vars

\* A second client has been accepted after the first one disconnected.
C31_Witness ==
    /\ Len(socks) >= 2
    /\ ipc_last = Slot("on_connection", 2, Return(None))
    /\ _socket = 2
    /\ socks[1].st \in {"closed", "deleted"} /\ socks[1].doomed
    /\ socks[2].st = "open" /\ socks[2].handlers /\ ~socks[2].doomed

(***************************************************************************)
(* C32: a call of setv whose validation raised left every layer of _values *)
(* as it was, so value returns what it returned before the call; a call    *)
(* whose validation succeeded changed the named layer to the given raw     *)
(* value and no other layer.                                               *)
(***************************************************************************)
C32_ValidateBeforeWrite ==
    [][(sv_last'.op = "setv" /\ sv_last' # sv_last)
        => LET layer == sv_last'.arg[1]
               value == sv_last'.arg[2]
           IN  IF sv_last'.kind = "raise"
               THEN /\ _values' = _values
                    /\ Value(_values') = Value(_values)
               ELSE /\ sv_last'.kind = "return"
                    /\ DOMAIN _values' = DOMAIN _values
                    /\ \A i \in DOMAIN _values :
                          /\ _values'[i].key = _values[i].key
                          /\ _values'[i].val =
                                IF _values[i].key = layer THEN value
                                ELSE _values[i].val]_vars

\* setv("temp", "b") has just raised while the temp layer holds "a".
C32_Witness ==
    /\ sv_last # <<>>
    /\ sv_last.op = "setv" /\ sv_last.kind = "raise"
    /\ sv_last.arg = <<"temp", "b">>
    /\ GetItem(_values, "temp") = "a"
    /\ Value(_values) = Return("a")

(***************************************************************************)
(* C38: no handler of the server dereferences _socket while it is None:    *)
(* the last slot that ran, when it is on_disconnected, on_ready_read or    *)
(* on_error, did not end with the AttributeError of a method call on None, *)
(* whatever calls of on_connection and shutdown came before it.            *)
(***************************************************************************)
C38_NoNoneDereference ==
    ipc_last.op \in {"on_disconnected", "on_ready_read", "on_error"}
    => ~(ipc_last.kind = "raise" /\ ipc_last.val = "AttributeError")

(***************************************************************************)
(* C34: with keep=true and placeholder=false, for every source, whatever   *)
(* state the scan ends in (also the escape state and inside an open        *)
(* quote), the tokens split returns, concatenated in order, are the        *)
(* source.                                                                 *)
(***************************************************************************)
C34_RoundTripAlways ==
    (pc = "done" /\ keep /\ ~placeholder) => Concat(out) = s

\* The source ends with an escape character inside an open double quote.
C34_Witness ==
    /\ pc = "done" /\ keep /\ ~placeholder
    /\ lexer.state \in escape
    /\ lexer.escapedstate \in quotes
    /\ Len(s) >= 3
    /\ Concat(out) = s

(***************************************************************************)
(* C35: for every source and every combination of the flags, whenever the  *)
(* scan is in the idle state with a character still to read, the token is  *)
(* empty and quoted is false.                                              *)
(***************************************************************************)
C35_IdleInvariant ==
    (pc = "scan" /\ pos < Len(lexer.string) /\ lexer.state = " ")
        => (lexer.token = <<>> /\ ~lexer.quoted)

\* The idle state after an empty quoted token was yielded on whitespace.
C35_Witness ==
    /\ pc = "scan" /\ pos = 3 /\ pos < Len(lexer.string)
    /\ lexer.state = " "
    /\ lexer.string[1] \in quotes /\ lexer.string[2] = lexer.string[1]
    /\ tokens # <<>> /\ tokens[1] = <<>>
    /\ lexer.token = <<>> /\ ~lexer.quoted

\* t is made only of tokenizer whitespace, quote characters and whole
\* occurrences of the marker.
RECURSIVE IsPlaceholderText(_)
IsPlaceholderText(t) ==
    IF t = <<>> THEN TRUE
    ELSE IF Head(t) \in whitespace \cup quotes THEN IsPlaceholderText(Tail(t))
    ELSE /\ Len(t) >= 2
         /\ SubSeq(t, 1, 2) = Marker
         /\ IsPlaceholderText(SubSeq(t, 3, Len(t)))

(***************************************************************************)
(* C36: for every source, every token split returns with placeholder=True  *)
(* is made only of tokenizer whitespace characters, quote characters and   *)
(* occurrences of the marker {}: no other character of the source and no   *)
(* backslash is in it.                                                     *)
(***************************************************************************)
C36_PlaceholderAlphabet ==
    (pc = "done" /\ placeholder)
        => \A i \in 1..Len(out) : IsPlaceholderText(out[i])

\* "\a" in placeholder mode: the backslash and the a are not in the output.
C36_Witness ==
    /\ pc = "done" /\ placeholder
    /\ s = <<"\"", "\\", "a", "\"">>
    /\ out = <<QuotedMarker>>
    /\ IsPlaceholderText(out[1])

(***************************************************************************)
(* C37, as claimed: for every source, after every number of characters     *)
(* read, the state and the return state (escapedstate) of the scan are the *)
(* same for all combinations of keep and placeholder.                      *)
(***************************************************************************)
C37_Original ==
    pc = "scan"
        => \A k, p \in BOOLEAN :
              LET other == LexerAfter(s, k, p, pos)
              IN  /\ other.state = lexer.state
                  /\ other.escapedstate = lexer.escapedstate

(***************************************************************************)
(* C37, amended: for every source, after every number of characters read,  *)
(* the state of the scan is the same for all combinations of keep and      *)
(* placeholder, and so is the return state whenever the scan is in the     *)
(* escape state, the one state that reads it.                              *)
(***************************************************************************)
C37_Amended ==
    pc = "scan"
        => \A k, p \in BOOLEAN :
              LET other == LexerAfter(s, k, p, pos)
              IN  /\ other.state = lexer.state
                  /\ lexer.state \in escape
                        => other.escapedstate = lexer.escapedstate

\* Placeholder mode is back in the idle state with the return state of the
\* last escape left over, where the run without the flags has reset it.
C37_Witness ==
    /\ pc = "scan" /\ placeholder /\ pos >= 3
    /\ lexer.state = " " /\ lexer.escapedstate = "a"
    /\ LexerAfter(s, FALSE, FALSE, pos).state = " "
    /\ LexerAfter(s, FALSE, FALSE, pos).escapedstate = " "
    /\ LexerAfter(s, keep, placeholder, pos) = lexer

(***************************************************************************)
(* qutebrowser/utils/url.py: fuzzy_url(url) for a text url.                *)
(***************************************************************************)
MaxUrlLen == 3

UrlAlphabet == {"a", "g", " ", "!", "."}

UrlTexts == UNION {[1..n -> UrlAlphabet] : n \in 0..MaxUrlLen}

\* The classes \w and \s of the regex on the alphabet.
WordChars == {"a", "g"}
SpaceChars == {" "}

\* The end of the longest run of characters of S in t that starts at i
\* (i - 1 when t[i] is not in S); i is at most Len(t) + 1.
RunEnd(t, i, S) ==
    CHOOSE j \in (i - 1)..Len(t) :
        /\ \A k \in i..j : t[k] \in S
        /\ j = Len(t) \/ t[j + 1] \notin S

NoMatch == [found |-> FALSE, groups |-> <<>>]

\* !(\w+)($|\s+) at position b, group 1 being g1: the groups of the match.
BangAt(t, b, g1) ==
    IF b > Len(t) THEN NoMatch
    ELSE IF t[b] # "!" THEN NoMatch
    ELSE LET w == RunEnd(t, b + 1, WordChars)
         IN  IF w < b + 1 THEN NoMatch
             ELSE IF w = Len(t)
             THEN [found |-> TRUE,
                   groups |-> <<g1, SubSeq(t, b + 1, w), <<>> >>]
             ELSE LET e == RunEnd(t, w + 1, SpaceChars)
                  IN  IF e < w + 1 THEN NoMatch
                      ELSE [found |-> TRUE,
                            groups |-> <<g1, SubSeq(t, b + 1, w),
                                         SubSeq(t, w + 1, e)>>]

\* (^|\s+)!(\w+)($|\s+) matched at position i.
MatchAt(t, i) ==
    IF i = 1 /\ BangAt(t, 1, <<>>).found THEN BangAt(t, 1, <<>>)
    ELSE LET sp == RunEnd(t, i, SpaceChars)
         IN  IF sp < i THEN NoMatch
             ELSE BangAt(t, sp + 1, SubSeq(t, i, sp))

\* r.search(txt): the leftmost match.
RECURSIVE SearchFrom(_, _)
SearchFrom(t, i) ==
    IF i > Len(t) + 1 THEN NoMatch
    ELSE IF MatchAt(t, i).found THEN MatchAt(t, i)
    ELSE SearchFrom(t, i + 1)

\* config.get('general', 'search-regex'): the regex and the group index.
SearchRegex(t) == SearchFrom(t, 1)
Group == 2

\* 'https://encrypted.google.com/search?q={}', shortened.
TplGoogle == <<"g", "?", "{", "}">>

\* What the user may have configured for the engine DEFAULT: a template
\* with the field {} and one with an unmatched brace.
DefaultTemplates == {<<"d", "?", "{", "}">>, <<"d", "?", "{">>}

\* config.get('searchengines', engine) for the engine names of the alphabet.
ConfigGetEngine(engine) ==
    IF engine = <<"g">> THEN Return(TplGoogle) ELSE Raise("NoOptionError")

\* str.format(arg) on a template with only automatic fields.
RECURSIVE Format(_, _)
Format(tpl, arg) ==
    IF tpl = <<>> THEN Return(<<>>)
    ELSE LET two == IF Len(tpl) >= 2 THEN SubSeq(tpl, 1, 2) ELSE <<>>
             Then(lit, n) ==
                 LET r == Format(SubSeq(tpl, n + 1, Len(tpl)), arg)
                 IN  IF r.kind = "raise" THEN r ELSE Return(lit \o r.val)
         IN  IF two = <<"{", "}">> THEN Then(arg, 2)
             ELSE IF two = <<"{", "{">> THEN Then(<<"{">>, 2)
             ELSE IF two = <<"}", "}">> THEN Then(<<"}">>, 2)
             ELSE IF Head(tpl) \in {"{", "}"} THEN Raise("ValueError")
             ELSE Then(<<Head(tpl)>>, 1)

\* urllib.parse.quote on the alphabet.
QuoteChar(c) ==
    IF c = " " THEN <<"%", "2", "0">>
    ELSE IF c = "!" THEN <<"%", "2", "1">>
    ELSE <<c>>

RECURSIVE Quote(_)
Quote(t) == IF t = <<>> THEN <<>> ELSE QuoteChar(Head(t)) \o Quote(Tail(t))

\* QUrl.fromUserInput(text): the QUrl object Qt makes of the text.
FromUserInput(text) == [made |-> "QUrl.fromUserInput", of |-> text]

\* The base class of an exception class.
BaseOf(e) ==
    IF e \in {"SearchEngineError", "ValueError", "NoOptionError"}
    THEN "Exception" ELSE "BaseException"

\* "except cls:" catches an exception of class e.
Catches(cls, e) == e = cls \/ BaseOf(e) = cls

_get_search_url(txt, w) ==
    LET m == SearchRegex(txt)
        template ==
            IF m.found
            THEN LET r == ConfigGetEngine(m.groups[Group])
                 IN  IF r.kind = "raise" /\ Catches("NoOptionError", r.val)
                     THEN w.default ELSE r.val
            ELSE w.default
        term == IF m.found
                THEN Concat(SubSeq(m.groups, 1, Group - 1)
                            \o SubSeq(m.groups, Group + 1, Len(m.groups)))
                ELSE txt
    IN  IF term = <<>> THEN Raise("SearchEngineError")
        ELSE LET f == Format(template, Quote(term))
             IN  IF f.kind = "raise" THEN f
                 ELSE Return(FromUserInput(f.val))

StartsWith(t, prefix) ==
    Len(t) >= Len(prefix) /\ SubSeq(t, 1, Len(prefix)) = prefix

Contains(t, c) == \E i \in 1..Len(t) : t[i] = c

\* QUrl.fromUserInput(url).host(): the text when Qt takes it for a host
\* name, else ''.
Host(url, w) == IF w.parses THEN url ELSE <<>>

_is_url_naive(url, w) ==
    IF StartsWith(url, <<"h", "t", "t", "p">>) THEN TRUE
    ELSE IF Contains(Host(url, w), ".") THEN TRUE
    ELSE IF Host(url, w) = <<"l", "o", "c", "a", "l", "h", "o", "s", "t">>
    THEN TRUE
    ELSE FALSE

_is_url_dns(url, w) ==
    IF Host(url, w) = <<>> THEN FALSE ELSE w.resolves

special_schemes == {"about", "qute", "file"}

is_special_url(url, w) == w.scheme \in special_schemes

\* True and False as the model writes them in an outcome.
Bool(b) == IF b THEN "True" ELSE "False"

is_url(url, w) ==
    IF w.autosearch = "False" THEN Return("True")
    ELSE IF Contains(url, " ") THEN Return("False")
    ELSE IF is_special_url(url, w) THEN Return("True")
    ELSE IF w.exists THEN Return("True")
    ELSE IF w.autosearch = "dns" THEN Return(Bool(_is_url_dns(url, w)))
    ELSE IF w.autosearch = "naive" THEN Return(Bool(_is_url_naive(url, w)))
    ELSE Raise("ValueError")

\* The configuration and the answers of Qt and the file system during the
\* call: general.auto-search ("full" stands for a value that is none of
\* false, naive and dns), the template of the engine DEFAULT, the scheme
\* QUrl sees, os.path.exists, whether Qt takes the text for a host name and
\* whether that name resolves.
Worlds ==
    [autosearch : {"False", "naive", "dns", "full"},
     default : DefaultTemplates,
     scheme : {"", "about"},
     exists : BOOLEAN,
     parses : BOOLEAN,
     resolves : BOOLEAN]

InitUrl ==
    /\ SplitIdle /\ PairIdle /\ SettingIdle /\ IPCIdle /\ AgainIdle
    /\ urlstr \in UrlTexts
    /\ world \in Worlds
    /\ fz_pc = "called"
    /\ fz_isurl = <<>>
    /\ fz_out = <<>>

\* Line 144, "if is_url(urlstr):"; its ValueError is outside the try.
FuzzyIsUrl ==
    /\ fz_pc = "called"
    /\ LET r == is_url(urlstr, world)
       IN  /\ fz_isurl' = r
           /\ fz_pc' = IF r.kind = "raise" THEN "raised"
                       ELSE IF r.val = "True" THEN "address" ELSE "search"
           /\ fz_out' = IF r.kind = "raise" THEN r ELSE fz_out
    /\ UNCHANGED <<urlstr, world>>
    /\ UNCHANGED <<splitVars, pairVars, settingVars, ipcVars, againVars>>

\* Lines 145-147 and the return.
FuzzyAddress ==
    /\ fz_pc = "address"
    /\ fz_out' = Return(FromUserInput(urlstr))
    /\ fz_pc' = "done"
    /\ UNCHANGED <<urlstr, world, fz_isurl>>
    /\ UNCHANGED <<splitVars, pairVars, settingVars, ipcVars, againVars>>

\* Lines 148-153 and the return: "except ValueError" around _get_search_url.
FuzzySearch ==
    /\ fz_pc = "search"
    /\ LET r == _get_search_url(urlstr, world)
       IN  IF r.kind = "return"
           THEN fz_out' = r /\ fz_pc' = "done"
           ELSE IF Catches("ValueError", r.val)
           THEN fz_out' = Return(FromUserInput(urlstr)) /\ fz_pc' = "done"
           ELSE fz_out' = r /\ fz_pc' = "raised"
    /\ UNCHANGED <<urlstr, world, fz_isurl>>
    /\ UNCHANGED <<splitVars, pairVars, settingVars, ipcVars, againVars>>

NextUrl ==
    \/ FuzzyIsUrl
    \/ FuzzyAddress
    \/ FuzzySearch

SpecUrl == InitUrl /\ [][NextUrl]_vars

(***************************************************************************)
(* C33: when is_url has judged the text not to be a URL and                *)
(* _get_search_url raises for it (SearchEngineError for a missing search   *)
(* term included), fuzzy_url returns QUrl.fromUserInput of the text and    *)
(* does not end with the exception.                                        *)
(***************************************************************************)
C33_FallsBack ==
    (/\ fz_pc \in {"done", "raised"}
     /\ fz_isurl = Return("False")
     /\ _get_search_url(urlstr, world).kind = "raise")
        => (fz_pc = "done" /\ fz_out = Return(FromUserInput(urlstr)))

====
